---- MODULE Spec2Model ----
(***************************************************************************)
(* A model of ratelimit-sdk: the LocalKV in-memory store with its          *)
(* setTimeout-driven key expiry, and the three rate limiters of the        *)
(* Ratelimit class (fixed window, sliding window, token bucket).           *)
(*                                                                         *)
(* Strings are sequences of one-character strings, so that key joining,    *)
(* Number.toString and parseInt are modelled by what they do.              *)
(***************************************************************************)
EXTENDS Bags, FiniteSets, Integers, Sequences, TLC

(***************************************************************************)
(* Bounds of the model.                                                    *)
(***************************************************************************)
MaxTime == 5
MaxCalls == 4
MaxTokens == 2
MaxWindow == 3
MaxRate == 3

\* The number of limit() calls that may be in flight at once.
MaxProcs == 2

\* The number of calls of a run in which calls overlap.
MaxOverlapped == 3

\* The number of operations of a run made on a LocalKV directly, and the
\* last clock value of such a run.
MaxKvOps == 3

MaxKvTime == 3

\* The number of calls of a run in which token bucket calls overlap.
MaxRaced == 2

\* The number of calls of a run in which store operations throw.
MaxFailCalls == 2

\* The number of calls of a run whose names contain the separator.
MaxKeyCalls == 3

\* The number of calls in a run that fills a sliding window of seven.
MaxBurst == 10

(***************************************************************************)
(* Strings.                                                                *)
(***************************************************************************)
Digits == <<"0", "1", "2", "3", "4", "5", "6", "7", "8", "9">>

IsDigit(c) == \E i \in 1..10 : Digits[i] = c

DigitVal(c) == (CHOOSE i \in 1..10 : Digits[i] = c) - 1

RECURSIVE NatToStr(_)
NatToStr(n) ==
  IF n < 10 THEN <<Digits[n + 1]>>
  ELSE NatToStr(n \div 10) \o <<Digits[(n % 10) + 1]>>

\* Number.prototype.toString() of an integer.
NumToStr(n) == IF n < 0 THEN <<"-">> \o NatToStr(0 - n) ELSE NatToStr(n)

\* A number is [nan |-> FALSE, val |-> n], or NaN.
NaN == [nan |-> TRUE, val |-> 0]

Num(n) == [nan |-> FALSE, val |-> n]

\* The value of the longest prefix of decimal digits of s, read after acc.
RECURSIVE DigitsPrefix(_, _, _)
DigitsPrefix(s, i, acc) ==
  IF i > Len(s) \/ ~IsDigit(s[i]) THEN acc
  ELSE DigitsPrefix(s, i + 1, (acc * 10) + DigitVal(s[i]))

RECURSIVE SkipSpaces(_, _)
SkipSpaces(s, i) ==
  IF i <= Len(s) /\ s[i] = " " THEN SkipSpaces(s, i + 1) ELSE i

\* A stored string is either plain text, Text(s) with s its characters, or
\* the JSON text of an object, JsonOf(obj) with obj the object that
\* JSON.stringify was given (a map from field name to characters).
Text(s) == [text |-> s]

JsonOf(obj) == [json |-> obj]

IsJson(v) == DOMAIN v = {"json"}

\* parseInt(s, 10): leading blanks, an optional sign, then the longest run
\* of digits; NaN when there is no digit. JSON object text starts with "{".
ParseInt(v) ==
  IF IsJson(v) THEN NaN
  ELSE LET s == v.text
           i == SkipSpaces(s, 1)
           neg == i <= Len(s) /\ s[i] = "-"
           j == IF i <= Len(s) /\ s[i] \in {"-", "+"} THEN i + 1 ELSE i
       IN IF j > Len(s) \/ ~IsDigit(s[j]) THEN NaN
          ELSE IF neg THEN Num(0 - DigitsPrefix(s, j, 0))
               ELSE Num(DigitsPrefix(s, j, 0))

\* [a, b, c].join(":")
Join(a, b, c) == a \o <<":">> \o b \o <<":">> \o c

(***************************************************************************)
(* IEEE-754 double arithmetic, as far as slidingWindow uses it.  A         *)
(* non-negative real below LimbBase is held exactly as NumLimbs limbs,     *)
(* most significant first: one integer limb then the fraction limbs.       *)
(* Every double that occurs here is such a number; an operation is the     *)
(* exact operation followed by FxRound, round-to-nearest-even at           *)
(* MantissaBits significant bits.                                          *)
(***************************************************************************)
Max(a, b) == IF a >= b THEN a ELSE b

Min(a, b) == IF a <= b THEN a ELSE b

LimbBits == 16

LimbBase == 2 ^ LimbBits

NumLimbs == 6

MantissaBits == 53

Limbs == 1..NumLimbs

\* Below, CHOOSE out \in {Op(x, y) : x \in {a}, y \in {b}} : TRUE is Op(a, b)
\* with each argument evaluated once.
\* The limbs of x as a tuple.
FxPack(x) == SubSeq(x, 1, NumLimbs)

FxInt(n) == FxPack([i \in Limbs |-> IF i = 1 THEN n ELSE 0])

FxHalf == FxPack([i \in Limbs |-> IF i = 2 THEN LimbBase \div 2 ELSE 0])

RECURSIVE FxCarryIn(_, _, _)
FxCarryIn(a, b, i) ==
  IF i = NumLimbs THEN 0
  ELSE (a[i + 1] + b[i + 1] + FxCarryIn(a, b, i + 1)) \div LimbBase

FxAddLimbs(a, b) ==
  FxPack([i \in Limbs |-> (a[i] + b[i] + FxCarryIn(a, b, i)) % LimbBase])

FxAdd(a, b) ==
  CHOOSE out \in {FxAddLimbs(x, y) : x \in {a}, y \in {b}} : TRUE

RECURSIVE FxBorrowIn(_, _, _)
FxBorrowIn(a, b, i) ==
  IF i = NumLimbs THEN 0
  ELSE IF a[i + 1] - b[i + 1] - FxBorrowIn(a, b, i + 1) < 0 THEN 1 ELSE 0

FxSubLimbs(a, b) ==
  FxPack([i \in Limbs |->
            (a[i] - b[i] - FxBorrowIn(a, b, i) + LimbBase) % LimbBase])

\* a - b for a >= b.
FxSub(a, b) ==
  CHOOSE out \in {FxSubLimbs(x, y) : x \in {a}, y \in {b}} : TRUE

RECURSIVE FxMulCarry(_, _, _)
FxMulCarry(p, a, i) ==
  IF i = NumLimbs THEN 0
  ELSE (p * a[i + 1] + FxMulCarry(p, a, i + 1)) \div LimbBase

FxMulLimbs(p, a) ==
  FxPack([i \in Limbs |-> (p * a[i] + FxMulCarry(p, a, i)) % LimbBase])

\* p * a for a small natural p.
FxMul(p, a) ==
  CHOOSE out \in {FxMulLimbs(x, y) : x \in {p}, y \in {a}} : TRUE

RECURSIVE FxDivRem(_, _, _)
FxDivRem(r, w, i) ==
  IF i = 1 THEN r % w ELSE (FxDivRem(r, w, i - 1) * LimbBase) % w

FxDivLimbs(r, w) ==
  FxPack([i \in Limbs |-> IF i = 1 THEN r \div w
                          ELSE (FxDivRem(r, w, i - 1) * LimbBase) \div w])

\* r / w cut after the last limb; inexact when a remainder is left.
FxDiv(r, w) ==
  CHOOSE out \in {FxDivLimbs(x, y) : x \in {r}, y \in {w}} : TRUE

FxDivInexact(r, w) == FxDivRem(r, w, NumLimbs) # 0

FxIsZero(x) == \A i \in Limbs : x[i] = 0

BitLen(n) == CHOOSE k \in 0..LimbBits : n < 2 ^ k /\ (k = 0 \/ n >= 2 ^ (k - 1))

\* Number of bits of x counted from its lowest fraction bit.
FxHighBit(x) ==
  LET i == CHOOSE j \in Limbs : x[j] # 0 /\ \A h \in 1..(j - 1) : x[h] = 0
  IN LimbBits * (NumLimbs - i) + BitLen(x[i])

\* Bit k of x, k = 0 being the lowest fraction bit.
FxBit(x, k) == (x[NumLimbs - (k \div LimbBits)] \div (2 ^ (k % LimbBits))) % 2

\* Some bit of x below bit k is set.
FxAnyBelow(x, k) ==
  \/ x[NumLimbs - (k \div LimbBits)] % (2 ^ (k % LimbBits)) # 0
  \/ \E j \in Limbs : j > NumLimbs - (k \div LimbBits) /\ x[j] # 0

\* x with its lowest drop bits cleared.
FxTruncate(x, drop) ==
  FxPack([i \in Limbs |->
            LET base == LimbBits * (NumLimbs - i)
            IN IF base >= drop THEN x[i]
               ELSE IF base + LimbBits <= drop THEN 0
               ELSE x[i] - (x[i] % (2 ^ (drop - base)))])

\* Bit drop alone.
FxUnit(drop) ==
  FxPack([i \in Limbs |-> IF i = NumLimbs - (drop \div LimbBits)
                            THEN 2 ^ (drop % LimbBits) ELSE 0])

\* The number of low bits x has beyond MantissaBits significant ones.
FxDrop(x) == IF FxIsZero(x) THEN 0 ELSE Max(0, FxHighBit(x) - MantissaBits)

FxRoundAt(x, inexact, drop) ==
  IF drop = 0 THEN x
  ELSE LET guard == FxBit(x, drop - 1) = 1
           rest == inexact \/ FxAnyBelow(x, drop - 1)
           up == guard /\ (rest \/ FxBit(x, drop) = 1)
       IN IF up THEN FxAdd(FxTruncate(x, drop), FxUnit(drop))
          ELSE FxTruncate(x, drop)

FxRoundLimbs(x, inexact) ==
  CHOOSE out \in {FxRoundAt(x, inexact, drop) : drop \in {FxDrop(x)}} : TRUE

\* The double nearest to x (to x plus a little when inexact), ties to even.
FxRound(x, inexact) ==
  CHOOSE out \in {FxRoundLimbs(u, v) : u \in {x}, v \in {inexact}} : TRUE

\* x > n for a natural n.
FxGreaterInt(x, n) == x[1] > n \/ (x[1] = n /\ \E i \in 2..NumLimbs : x[i] # 0)

\* Number(x.toFixed(1)) in tenths: the integer nearest to 10 x, the larger
\* of two equally near.
FxToFixed1(x) == FxAdd(FxMul(10, x), FxHalf)[1]


(***************************************************************************)
(* LocalKV.  A store state is a record                                     *)
(*   store       : the Map from key to string,                             *)
(*   expirations : the Map from key to the Timeout it tracks,              *)
(*   timers      : the host's pending setTimeout callbacks (a bag, since   *)
(*                 del forgets a Timeout without clearing it).             *)
(* A Timeout is [key, deadline]: its callback removes key at deadline.     *)
(***************************************************************************)
Null == [null |-> TRUE]

EmptyMap == <<>>

MapPut(m, k, v) == [x \in (DOMAIN m) \cup {k} |-> IF x = k THEN v ELSE m[x]]

MapDel(m, k) == [x \in (DOMAIN m) \ {k} |-> m[x]]

Has(m, k) == k \in DOMAIN m

EmptyKV == [store |-> EmptyMap, expirations |-> EmptyMap, timers |-> EmptyBag]

Result(S, ret, err) == [kv |-> S, ret |-> ret, err |-> err]

Get(S, key) == IF Has(S.store, key) THEN S.store[key] ELSE Null

\* setExpiration(key, milliseconds) called at time t.
SetExpirationMutNoTimer(S, key, milliseconds, t) == S

SetExpirationMutStack(S, key, milliseconds, t) ==
  LET timeout == [key |-> key, deadline |-> t + milliseconds]
  IN [S EXCEPT !.timers = @ (+) SetToBag({timeout}),
               !.expirations = MapPut(@, key, timeout)]

SetExpiration(S, key, milliseconds, t) ==
  LET cleared ==
        IF Has(S.expirations, key)
          THEN [S EXCEPT !.timers = @ (-) SetToBag({S.expirations[key]}),
                         !.expirations = MapDel(@, key)]
          ELSE S
      timeout == [key |-> key, deadline |-> t + milliseconds]
  IN [cleared EXCEPT !.timers = @ (+) SetToBag({timeout}),
                     !.expirations = MapPut(@, key, timeout)]

SetMutClearsExpiry(S, key, value, px, t) ==
  LET S1 == [S EXCEPT !.store = MapPut(@, key, value)]
      S2 == IF Has(S1.expirations, key)
              THEN [S1 EXCEPT !.timers = @ (-) SetToBag({S1.expirations[key]}),
                              !.expirations = MapDel(@, key)]
              ELSE S1
  IN Result(IF px # 0 THEN SetExpiration(S1, key, px, t) ELSE S2, TRUE, FALSE)

\* set(key, value, options) called at time t; px = 0 stands for no px.
Set(S, key, value, px, t) ==
  LET S1 == [S EXCEPT !.store = MapPut(@, key, value)]
  IN Result(IF px # 0 THEN SetExpiration(S1, key, px, t) ELSE S1, TRUE, FALSE)

IncrbyMutReset(S, key, increment) ==
  Result([S EXCEPT !.store = MapPut(@, key, Text(NumToStr(increment)))],
         increment, FALSE)

Incrby(S, key, increment) ==
  LET current == IF Has(S.store, key) THEN S.store[key] ELSE Text(<<"0">>)
      parsed == ParseInt(current)
  IN IF parsed.nan THEN Result(S, 0, TRUE)
     ELSE LET next == parsed.val + increment
          IN Result([S EXCEPT !.store = MapPut(@, key, Text(NumToStr(next)))],
                    next, FALSE)

Incr(S, key) == Incrby(S, key, 1)

PexpireMutAlways(S, key, milliseconds, t) ==
  Result(SetExpiration(S, key, milliseconds, t), 1, FALSE)

Pexpire(S, key, milliseconds, t) ==
  IF ~Has(S.store, key) THEN Result(S, 0, FALSE)
  ELSE Result(SetExpiration(S, key, milliseconds, t), 1, FALSE)

\* JSON.parse(text) as far as hmget and hmset use it: the object when the
\* text is an object's, otherwise nothing with a field (a number, a parse
\* error caught by the handler).
ParsedFields(v) == IF IsJson(v) THEN v.json ELSE EmptyMap

\* String(f) of a built-in function f.
FunctionText(name) ==
  <<"f", "u", "n", "c", "t", "i", "o", "n", " ">> \o name
    \o <<"(", ")", " ", "{", " ", "[", "n", "a", "t", "i", "v", "e", " ",
         "c", "o", "d", "e", "]", " ", "}">>

\* What the values JSON.parse makes inherit, as far as the model asks for
\* it: data["constructor"] of an object and of a number.
ObjectPrototype ==
  [constructor |-> FunctionText(<<"O", "b", "j", "e", "c", "t">>)]

NumberPrototype ==
  [constructor |-> FunctionText(<<"N", "u", "m", "b", "e", "r">>)]

\* s is the decimal text of an integer.
IsIntegerText(s) ==
  LET digits == IF s # <<>> /\ s[1] = "-" THEN Tail(s) ELSE s
  IN digits # <<>> /\ \A h \in 1..Len(digits) : IsDigit(digits[h])

\* JSON.parse(s) is a number (an integer without a leading zero).
IsJsonNumber(s) ==
  /\ IsIntegerText(s)
  /\ LET digits == IF s[1] = "-" THEN Tail(s) ELSE s
     IN Len(digits) = 1 \/ digits[1] # "0"

\* data[field] !== undefined ? String(data[field]) : "" for a value data
\* with the own fields own: own fields first, then inherited ones.
FieldOf(own, inherited, field) ==
  IF Has(own, field) THEN own[field]
  ELSE IF Has(inherited, field) THEN inherited[field]
  ELSE <<>>

\* hmget: a missing key gives empty strings, and so does a value
\* JSON.parse throws on (the catch).
Hmget(S, key, fields) ==
  IF ~Has(S.store, key)
    THEN Result(S, [i \in 1..Len(fields) |-> <<>>], FALSE)
    ELSE LET v == S.store[key]
         IN Result(S, [i \in 1..Len(fields) |->
                         IF IsJson(v)
                           THEN FieldOf(v.json, ObjectPrototype, fields[i])
                         ELSE IF IsJsonNumber(v.text)
                           THEN FieldOf(EmptyMap, NumberPrototype, fields[i])
                         ELSE <<>>], FALSE)

Hmset(S, key, fields) ==
  LET existing == IF Has(S.store, key) THEN ParsedFields(S.store[key])
                  ELSE EmptyMap
      merged == [f \in (DOMAIN existing) \cup (DOMAIN fields) |->
                   IF f \in DOMAIN fields THEN fields[f] ELSE existing[f]]
  IN Result([S EXCEPT !.store = MapPut(@, key, JsonOf(merged))], TRUE, FALSE)

DelMutExisting(S, keys) ==
  LET named == {keys[i] : i \in 1..Len(keys)}
  IN Result([S EXCEPT !.store = [k \in (DOMAIN @) \ named |-> @[k]],
                      !.expirations = [k \in (DOMAIN @) \ named |-> @[k]]],
            Cardinality(named \cap DOMAIN S.store), FALSE)

RECURSIVE Del(_, _)
Del(S, keys) ==
  IF keys = <<>> THEN Result(S, 0, FALSE)
  ELSE LET S1 == [S EXCEPT !.store = MapDel(@, Head(keys)),
                           !.expirations = MapDel(@, Head(keys))]
           rest == Del(S1, Tail(keys))
       IN Result(rest.kv, 1 + rest.ret, FALSE)

Clear(S) ==
  LET tracked == {S.expirations[k] : k \in DOMAIN S.expirations}
  IN [store |-> EmptyMap, expirations |-> EmptyMap,
      timers |-> S.timers (-) SetToBag(tracked)]

\* The host runs every setTimeout callback whose deadline has been reached:
\* each removes its key from store and from expirations.
FireTimers(S, t) ==
  LET due == {x \in BagToSet(S.timers) : x.deadline <= t}
      keys == {x.key : x \in due}
      left == BagToSet(S.timers) \ due
  IN [store |-> [k \in (DOMAIN S.store) \ keys |-> S.store[k]],
      expirations |-> [k \in (DOMAIN S.expirations) \ keys |->
                         S.expirations[k]],
      timers |-> [x \in left |-> S.timers[x]]]

(***************************************************************************)
(* ms(duration): the duration parser.  The number ms returns is a double   *)
(* up to 2^32 in magnitude: a sign, and limbs as above that hold the       *)
(* magnitude (scale 0) or the magnitude divided by LimbBase (scale 1).     *)
(***************************************************************************)
MsThrown == [thrown |-> TRUE, nan |-> FALSE, val |-> 0]

MsNaN == [thrown |-> FALSE, nan |-> TRUE, val |-> 0]

MsReturned(number) == [thrown |-> FALSE, nan |-> FALSE, val |-> number]

\* An exact number of seven limbs: two integer limbs, then the fraction.
WideLimbs == 1..(NumLimbs + 1)

Widen(x) == <<0>> \o x

RECURSIVE WideCarry(_, _, _)
WideCarry(p, a, i) ==
  IF i = NumLimbs + 1 THEN 0
  ELSE (p * a[i + 1] + WideCarry(p, a, i + 1)) \div LimbBase

\* p * a for a natural p up to 1000.
WideMul(p, a) ==
  [i \in WideLimbs |-> (p * a[i] + WideCarry(p, a, i)) % LimbBase]

\* factor * a, in steps that fit: the factors are 1, 1000, 1000 * 60,
\* 1000 * 60 * 60 and 1000 * 60 * 60 * 24.
RECURSIVE WideTimes(_, _)
WideTimes(factor, a) ==
  IF factor <= 1000 THEN WideMul(factor, a)
  ELSE IF factor % 1000 = 0 THEN WideTimes(factor \div 1000, WideMul(1000, a))
  ELSE WideTimes(factor \div 60, WideMul(60, a))

\* The double nearest to the exact number w (to w plus a little when
\* inexact), with sign neg.
WideRound(neg, w, inexact) ==
  IF w[1] = 0
    THEN [neg |-> neg, scale |-> 0,
          limbs |-> FxRound(SubSeq(w, 2, NumLimbs + 1), inexact)]
    ELSE [neg |-> neg, scale |-> 1,
          limbs |-> FxRound(SubSeq(w, 1, NumLimbs),
                            inexact \/ w[NumLimbs + 1] # 0)]

\* factor * time for a double time with sign neg: one multiplication, one
\* rounding.
DoubleTimes(factor, neg, time) ==
  WideRound(neg, WideTimes(factor, Widen(time)), FALSE)

\* A value that is not a string (typeof duration !== "string").
NotAString(what) == [notString |-> what]

IsString(v) == DOMAIN v = {"text"}

Whitespace == {" ", "\t", "\n"}

RECURSIVE TrimStart(_)
TrimStart(s) ==
  IF s # <<>> /\ Head(s) \in Whitespace THEN TrimStart(Tail(s)) ELSE s

RECURSIVE TrimEnd(_)
TrimEnd(s) ==
  IF s # <<>> /\ s[Len(s)] \in Whitespace
    THEN TrimEnd(SubSeq(s, 1, Len(s) - 1))
    ELSE s

\* duration.trim()
Trim(s) == TrimEnd(TrimStart(s))

UpperLetters == <<"A", "C", "D", "E", "H", "I", "L", "M", "N", "O", "R", "S", "T", "U", "Y", "W", "K", "X">>

LowerLetters == <<"a", "c", "d", "e", "h", "i", "l", "m", "n", "o", "r", "s", "t", "u", "y", "w", "k", "x">>

LowerOf(c) ==
  IF \E i \in 1..Len(UpperLetters) : UpperLetters[i] = c
    THEN LowerLetters[CHOOSE i \in 1..Len(UpperLetters) : UpperLetters[i] = c]
    ELSE c

\* rawUnit.toLowerCase(), and the i flag of the regular expression
ToLowerCase(s) == [i \in 1..Len(s) |-> LowerOf(s[i])]

\* The index after the digits of s that start at i (\d*).
RECURSIVE DigitsEnd(_, _)
DigitsEnd(s, i) ==
  IF i <= Len(s) /\ IsDigit(s[i]) THEN DigitsEnd(s, i + 1) ELSE i

\* The index after the whitespace of s that starts at i (\s*).
RECURSIVE WhitespaceEnd(_, _)
WhitespaceEnd(s, i) ==
  IF i <= Len(s) /\ s[i] \in Whitespace THEN WhitespaceEnd(s, i + 1) ELSE i

\* The alternatives of the group unit of the regular expression.
RegexUnits ==
  {<<"m", "i", "l", "l", "i", "s", "e", "c", "o", "n", "d">>,
   <<"m", "i", "l", "l", "i", "s", "e", "c", "o", "n", "d", "s">>,
   <<"m", "s", "e", "c">>, <<"m", "s", "e", "c", "s">>, <<"m", "s">>,
   <<"s", "e", "c", "o", "n", "d">>, <<"s", "e", "c", "o", "n", "d", "s">>,
   <<"s", "e", "c">>, <<"s", "e", "c", "s">>, <<"s">>,
   <<"m", "i", "n", "u", "t", "e">>, <<"m", "i", "n", "u", "t", "e", "s">>,
   <<"m", "i", "n">>, <<"m", "i", "n", "s">>, <<"m">>,
   <<"h", "o", "u", "r">>, <<"h", "o", "u", "r", "s">>, <<"h", "r">>,
   <<"h", "r", "s">>, <<"h">>, <<"d", "a", "y">>, <<"d", "a", "y", "s">>,
   <<"d">>}

\* The regular expression applied to input: whether it matches, and the
\* groups value and unit (unit is empty when the group did not take part).
MatchDuration(input) ==
  LET a == IF input # <<>> /\ input[1] = "-" THEN 2 ELSE 1
      b == DigitsEnd(input, a)
      dot == b <= Len(input) /\ input[b] = "."
      c == IF dot THEN DigitsEnd(input, b + 1) ELSE b
      fraction == dot /\ c > b + 1
      e == IF fraction THEN c ELSE b
      f == WhitespaceEnd(input, e)
      rest == SubSeq(input, f, Len(input))
  IN [matched |-> /\ b > a \/ fraction
                  /\ rest = <<>> \/ ToLowerCase(rest) \in RegexUnits,
      value |-> SubSeq(input, 1, e - 1),
      unit |-> rest]

\* 10^n
RECURSIVE PowerOfTen(_)
PowerOfTen(n) == IF n = 0 THEN 1 ELSE 10 * PowerOfTen(n - 1)

\* Number.parseFloat(value) for a value the regular expression matched:
\* the double nearest to the decimal number, without its sign.
ParseFloat(value) ==
  LET digits == IF value[1] = "-" THEN Tail(value) ELSE value
      b == DigitsEnd(digits, 1)
      decimals == SubSeq(digits, b + 1, Len(digits))
      scale == PowerOfTen(Len(decimals))
      shifted == (DigitsPrefix(digits, 1, 0) * scale)
                   + DigitsPrefix(decimals, 1, 0)
  IN FxRound(FxDiv(shifted, scale), FxDivInexact(shifted, scale))

\* The switch over the unit: the factor, 0 for the default branch.
UnitFactor(unit) ==
  CASE unit \in
         {<<"m", "i", "l", "l", "i", "s", "e", "c", "o", "n", "d">>,
          <<"m", "i", "l", "l", "i", "s", "e", "c", "o", "n", "d", "s">>,
          <<"m", "s">>} ->
           1
    [] unit \in
         {<<"s">>, <<"s", "e", "c", "o", "n", "d">>,
          <<"s", "e", "c", "o", "n", "d", "s">>, <<"s", "e", "c", "s">>,
          <<"s", "e", "c">>} ->
           1000
    [] unit \in
         {<<"m">>, <<"m", "i", "n", "u", "t", "e">>,
          <<"m", "i", "n", "u", "t", "e", "s">>, <<"m", "i", "n", "s">>,
          <<"m", "i", "n">>} ->
           60000
    [] unit \in
         {<<"h">>, <<"h", "o", "u", "r">>, <<"h", "o", "u", "r", "s">>,
          <<"h", "r", "s">>, <<"h", "r">>} ->
           3600000
    [] unit \in
         {<<"d">>, <<"d", "a", "y">>, <<"d", "a", "y", "s">>} ->
           86400000
    [] OTHER -> 0

\* ms(duration): throws, returns NaN, or returns a number.
Ms(duration) ==
  IF ~IsString(duration) \/ duration.text = <<>> THEN MsThrown
  ELSE LET match == MatchDuration(Trim(duration.text))
           unit == ToLowerCase(match.unit)
       IN IF ~match.matched THEN MsNaN
          ELSE IF UnitFactor(unit) = 0 THEN MsThrown
          ELSE MsReturned(DoubleTimes(UnitFactor(unit), match.value[1] = "-",
                                      ParseFloat(match.value)))

(***************************************************************************)
(* Ratelimit: the three limiters.  The outcome of a call is                *)
(*   kv   : the store state it leaves,                                     *)
(*   err  : whether a store operation failed (the call then rejects),      *)
(*   resp : the RatelimitResponse; remaining counts 1/unit of a request,   *)
(*          and nan tells that remaining is NaN,                           *)
(*   obs  : the values the call computed on its way.                       *)
(***************************************************************************)
NoResponse == [error |-> TRUE]

NoObs == [none |-> TRUE]

Response(success, limit, remaining, reset, unit, nan) ==
  [success |-> success, limit |-> limit, remaining |-> remaining,
   reset |-> reset, unit |-> unit, nan |-> nan]

Outcome(S, err, resp, obs) == [kv |-> S, err |-> err, resp |-> resp, obs |-> obs]

WindowKeyMutNoIdentifier(namespace, identifier, window) ==
  Join(namespace, <<>>, NumToStr(window))

\* [ctx.namespace, identifier, bucket].join(":")
WindowKey(namespace, identifier, window) ==
  Join(namespace, identifier, NumToStr(window))

FixedResponseMutOffByOne(tokens, current, bucket, windowDuration) ==
  Response(current < tokens, tokens, Max(0, tokens - current),
           (bucket + 1) * windowDuration, 1, FALSE)

FixedResponseMutNoClamp(tokens, current, bucket, windowDuration) ==
  Response(current <= tokens, tokens, tokens - current,
           (bucket + 1) * windowDuration, 1, FALSE)

FixedResponseMutReset(tokens, current, bucket, windowDuration) ==
  Response(current <= tokens, tokens, Max(0, tokens - current),
           bucket * windowDuration, 1, FALSE)

FixedResponse(tokens, current, bucket, windowDuration) ==
  Response(current <= tokens, tokens, Max(0, tokens - current),
           (bucket + 1) * windowDuration, 1, FALSE)

FixedWindowMutAdmissions(S, namespace, identifier, tokens, windowDuration, t) ==
  LET bucket == t \div windowDuration
      key == WindowKey(namespace, identifier, bucket)
      stored == IF Has(S.store, key) THEN ParseInt(S.store[key]).val ELSE 0
      incr == IF stored >= tokens THEN Result(S, stored + 1, FALSE)
              ELSE Incr(S, key)
      current == incr.ret
      S2 == IF current = 1
              THEN Pexpire(incr.kv, key, windowDuration, t).kv
              ELSE incr.kv
  IN Outcome(S2, FALSE,
             FixedResponse(tokens, current, bucket, windowDuration),
             [key |-> key, bucket |-> bucket, current |-> current])

\* fixedWindow(tokens, window) called at time t, the store answering at once.
FixedWindow(S, namespace, identifier, tokens, windowDuration, t) ==
  LET bucket == t \div windowDuration
      key == WindowKey(namespace, identifier, bucket)
      incr == Incr(S, key)
  IN IF incr.err THEN Outcome(incr.kv, TRUE, NoResponse, NoObs)
     ELSE LET current == incr.ret
              S2 == IF current = 1
                      THEN Pexpire(incr.kv, key, windowDuration, t).kv
                      ELSE incr.kv
          IN Outcome(S2, FALSE,
                     FixedResponse(tokens, current, bucket, windowDuration),
                     [key |-> key, bucket |-> bucket, current |-> current])

\* previousCount * (1 - percentage) + current, in doubles.
SlidingAverage(previousCount, current, t, windowDuration) ==
  LET r == t % windowDuration
      percentage == FxRound(FxDiv(r, windowDuration),
                            FxDivInexact(r, windowDuration))
      rest == FxRound(FxSub(FxInt(1), percentage), FALSE)
      weighted == FxRound(FxMul(previousCount, rest), FALSE)
  IN FxRound(FxAdd(weighted, FxInt(current)), FALSE)

SlidingResponseMutOffByOne(tokens, current, previous, t, windowDuration) ==
  LET reset == ((t \div windowDuration) + 1) * windowDuration
      average == SlidingAverage(previous.val, current, t, windowDuration)
  IN IF FxGreaterInt(average, tokens - 1)
       THEN Response(FALSE, tokens, 0, reset, 1, FALSE)
       ELSE Response(TRUE, tokens,
                     Max(0, FxToFixed1(FxRound(FxSub(FxInt(tokens), average),
                                               FALSE))),
                     reset, 10, FALSE)

SlidingResponseMutLenient(tokens, current, previous, t, windowDuration) ==
  LET reset == ((t \div windowDuration) + 1) * windowDuration
      average == SlidingAverage(previous.val, current, t, windowDuration)
  IN IF FxGreaterInt(average, tokens + 1)
       THEN Response(FALSE, tokens, 0, reset, 1, FALSE)
       ELSE Response(TRUE, tokens,
                     Max(0, FxToFixed1(FxRound(FxSub(FxInt(tokens), average),
                                               FALSE))),
                     reset, 10, FALSE)

\* The response of slidingWindow from the two counts; previous is the
\* result of parseInt.  A NaN average is not greater than tokens and makes
\* remaining NaN.
SlidingResponse(tokens, current, previous, t, windowDuration) ==
  LET reset == ((t \div windowDuration) + 1) * windowDuration
  IN IF previous.nan THEN Response(TRUE, tokens, 0, reset, 10, TRUE)
     ELSE LET average == SlidingAverage(previous.val, current, t,
                                        windowDuration)
          IN IF FxGreaterInt(average, tokens)
               THEN Response(FALSE, tokens, 0, reset, 1, FALSE)
               ELSE LET left == FxRound(FxSub(FxInt(tokens), average), FALSE)
                    IN Response(TRUE, tokens, Max(0, FxToFixed1(left)),
                                reset, 10, FALSE)

\* parseInt(v ?? "0") of the value get returned.
ParsePrevious(v) == IF v = Null THEN Num(0) ELSE ParseInt(v)

\* slidingWindow(tokens, window) called at time t.
SlidingWindow(S, namespace, identifier, tokens, windowDuration, t) ==
  LET currentWindow == t \div windowDuration
      previousWindow == currentWindow - 1
      currentBucket == WindowKey(namespace, identifier, currentWindow)
      previousBucket == WindowKey(namespace, identifier, previousWindow)
      incr == Incr(S, currentBucket)
  IN IF incr.err THEN Outcome(incr.kv, TRUE, NoResponse, NoObs)
     ELSE LET current == incr.ret
              S2 == IF current = 1
                      THEN Pexpire(incr.kv, currentBucket, windowDuration, t).kv
                      ELSE incr.kv
              previousCount == ParsePrevious(Get(S2, previousBucket))
          IN Outcome(S2, FALSE,
                     SlidingResponse(tokens, current, previousCount, t,
                                     windowDuration),
                     [key |-> currentBucket, bucket |-> currentWindow,
                      current |-> current, previous |-> previousCount])

BucketKey(namespace, identifier) ==
  Join(namespace, identifier, <<"b", "u", "c", "k", "e", "t">>)

NaNStr == <<"N", "a", "N">>

\* refillRate is a number: token amounts are counted in halves, so that the
\* rates 0.5, 1, 1.5, 2, ... are covered.  amount / TokenUnit is the number.
TokenUnit == 2

\* Number.prototype.toString() of a number of halves.
HalvesToStr(h) ==
  IF h % TokenUnit = 0 THEN NumToStr(h \div TokenUnit)
  ELSE NumToStr(h \div TokenUnit) \o <<".", "5">>

\* current[i] ? parseInt(current[i]) : otherwise
ParseField(field, otherwise) ==
  IF field # <<>> THEN ParseInt(Text(field)) ELSE Num(otherwise)

BucketDecisionMutNoRefill(tokensRead, lastRefillRead, refillRate, refillDuration, maxTokens, t) ==
  LET tokens == ParseField(tokensRead, maxTokens).val * TokenUnit
      lastRefill == ParseField(lastRefillRead, t).val
      success == tokens >= TokenUnit
      tokensToSet == IF success THEN tokens - TokenUnit ELSE tokens
  IN [success |-> success, nan |-> FALSE, tokens |-> tokens,
      lastRefill |-> lastRefill, tokensToAdd |-> 0,
      newTokens |-> tokens, tokensToSet |-> tokensToSet,
      refillDate |-> lastRefill, tokensStr |-> HalvesToStr(tokensToSet),
      refillStr |-> NumToStr(lastRefill)]

BucketDecisionMutStrict(tokensRead, lastRefillRead, refillRate, refillDuration, maxTokens, t) ==
  LET parsedTokens == ParseField(tokensRead, maxTokens)
      parsedRefill == ParseField(lastRefillRead, t)
      tokens == parsedTokens.val * TokenUnit
      lastRefill == parsedRefill.val
      timeSinceLastRefill == t - lastRefill
      tokensToAdd == (timeSinceLastRefill \div refillDuration) * refillRate
      newTokens == Min(maxTokens * TokenUnit, tokens + tokensToAdd)
      success == newTokens > TokenUnit
      tokensToSet == IF success THEN newTokens - TokenUnit ELSE newTokens
      refillDate == IF tokensToAdd > 0 THEN t ELSE lastRefill
  IN IF parsedRefill.nan
       THEN [success |-> FALSE, nan |-> TRUE, tokens |-> tokens,
             lastRefill |-> 0, tokensToAdd |-> 0,
             newTokens |-> 0, tokensToSet |-> 0, refillDate |-> 0,
             tokensStr |-> NaNStr, refillStr |-> NaNStr]
     ELSE IF parsedTokens.nan
       THEN [success |-> FALSE, nan |-> TRUE, tokens |-> 0,
             lastRefill |-> lastRefill, tokensToAdd |-> tokensToAdd,
             newTokens |-> 0, tokensToSet |-> 0, refillDate |-> refillDate,
             tokensStr |-> NaNStr, refillStr |-> NumToStr(refillDate)]
     ELSE [success |-> success, nan |-> FALSE, tokens |-> tokens,
           lastRefill |-> lastRefill, tokensToAdd |-> tokensToAdd,
           newTokens |-> newTokens, tokensToSet |-> tokensToSet,
           refillDate |-> refillDate, tokensStr |-> HalvesToStr(tokensToSet),
           refillStr |-> NumToStr(refillDate)]

BucketDecisionMutDrift(tokensRead, lastRefillRead, refillRate, refillDuration, maxTokens, t) ==
  LET parsedTokens == ParseField(tokensRead, maxTokens)
      parsedRefill == ParseField(lastRefillRead, t)
      tokens == parsedTokens.val * TokenUnit
      lastRefill == parsedRefill.val
      timeSinceLastRefill == t - lastRefill
      tokensToAdd == (timeSinceLastRefill \div refillDuration) * refillRate
      newTokens == Min(maxTokens * TokenUnit, tokens + tokensToAdd)
      success == newTokens >= TokenUnit
      tokensToSet == IF success THEN newTokens - TokenUnit ELSE newTokens
      refillDate == t
  IN IF parsedRefill.nan
       THEN [success |-> FALSE, nan |-> TRUE, tokens |-> tokens,
             lastRefill |-> 0, tokensToAdd |-> 0,
             newTokens |-> 0, tokensToSet |-> 0, refillDate |-> 0,
             tokensStr |-> NaNStr, refillStr |-> NaNStr]
     ELSE IF parsedTokens.nan
       THEN [success |-> FALSE, nan |-> TRUE, tokens |-> 0,
             lastRefill |-> lastRefill, tokensToAdd |-> tokensToAdd,
             newTokens |-> 0, tokensToSet |-> 0, refillDate |-> refillDate,
             tokensStr |-> NaNStr, refillStr |-> NumToStr(refillDate)]
     ELSE [success |-> success, nan |-> FALSE, tokens |-> tokens,
           lastRefill |-> lastRefill, tokensToAdd |-> tokensToAdd,
           newTokens |-> newTokens, tokensToSet |-> tokensToSet,
           refillDate |-> refillDate, tokensStr |-> HalvesToStr(tokensToSet),
           refillStr |-> NumToStr(refillDate)]

\* What tokenBucket computes from the record it read at time t; refillRate
\* and the token amounts of the result are in halves.
BucketDecision(tokensRead, lastRefillRead, refillRate, refillDuration, maxTokens, t) ==
  LET parsedTokens == ParseField(tokensRead, maxTokens)
      parsedRefill == ParseField(lastRefillRead, t)
      tokens == parsedTokens.val * TokenUnit
      lastRefill == parsedRefill.val
      timeSinceLastRefill == t - lastRefill
      tokensToAdd == (timeSinceLastRefill \div refillDuration) * refillRate
      newTokens == Min(maxTokens * TokenUnit, tokens + tokensToAdd)
      success == newTokens >= TokenUnit
      tokensToSet == IF success THEN newTokens - TokenUnit ELSE newTokens
      refillDate == IF tokensToAdd > 0 THEN t ELSE lastRefill
  IN IF parsedRefill.nan
       THEN [success |-> FALSE, nan |-> TRUE, tokens |-> tokens,
             lastRefill |-> 0, tokensToAdd |-> 0,
             newTokens |-> 0, tokensToSet |-> 0, refillDate |-> 0,
             tokensStr |-> NaNStr, refillStr |-> NaNStr]
     ELSE IF parsedTokens.nan
       THEN [success |-> FALSE, nan |-> TRUE, tokens |-> 0,
             lastRefill |-> lastRefill, tokensToAdd |-> tokensToAdd,
             newTokens |-> 0, tokensToSet |-> 0, refillDate |-> refillDate,
             tokensStr |-> NaNStr, refillStr |-> NumToStr(refillDate)]
     ELSE [success |-> success, nan |-> FALSE, tokens |-> tokens,
           lastRefill |-> lastRefill, tokensToAdd |-> tokensToAdd,
           newTokens |-> newTokens, tokensToSet |-> tokensToSet,
           refillDate |-> refillDate, tokensStr |-> HalvesToStr(tokensToSet),
           refillStr |-> NumToStr(refillDate)]

BucketResponseMutLastRefill(d, refillDuration, maxTokens) ==
  Response(d.success, maxTokens, Max(0, d.tokensToSet),
           d.lastRefill + refillDuration, TokenUnit, d.nan)

BucketResponse(d, refillDuration, maxTokens) ==
  Response(d.success, maxTokens, Max(0, d.tokensToSet),
           d.refillDate + refillDuration, TokenUnit, d.nan)

\* tokenBucket(refillRate, refillInterval, maxTokens) called at time t.
TokenBucket(S, namespace, identifier, refillRate, refillDuration, maxTokens, t) ==
  LET key == BucketKey(namespace, identifier)
      current == Hmget(S, key, <<"tokens", "lastRefill">>).ret
      d == BucketDecision(current[1], current[2], refillRate, refillDuration,
                          maxTokens, t)
      S1 == Hmset(S, key, [tokens |-> d.tokensStr,
                           lastRefill |-> d.refillStr]).kv
      S2 == Pexpire(S1, key, refillDuration * 2, t).kv
  IN Outcome(S2, FALSE, BucketResponse(d, refillDuration, maxTokens),
             [key |-> key, read |-> current, decision |-> d])

\* A limiter is what fixedWindow, slidingWindow or tokenBucket returned:
\* tokens is the limit (maxTokens), window the parsed duration, rate the
\* refill rate of a token bucket in halves of a token.
Limiter(alg, tokens, window, rate) ==
  [alg |-> alg, tokens |-> tokens, window |-> window, rate |-> rate]

\* this.limiter({kv, namespace}, identifier) at time t.
Limit(S, namespace, lim, identifier, t) ==
  CASE lim.alg = "fixedWindow" ->
         FixedWindow(S, namespace, identifier, lim.tokens, lim.window, t)
    [] lim.alg = "slidingWindow" ->
         SlidingWindow(S, namespace, identifier, lim.tokens, lim.window, t)
    [] lim.alg = "tokenBucket" ->
         TokenBucket(S, namespace, identifier, lim.rate, lim.window,
                     lim.tokens, t)

(***************************************************************************)
(* The state: the clock, the LocalKV instance, the limiter every Ratelimit *)
(* instance was built with, the calls made so far, and the fixedWindow     *)
(* calls that are between two of their awaits.                             *)
(***************************************************************************)
VARIABLES now, store, expirations, timers, limiter, hist, pending

vars == <<now, store, expirations, timers, limiter, hist, pending>>

KV == [store |-> store, expirations |-> expirations, timers |-> timers]

SetKV(S) ==
  /\ store' = S.store
  /\ expirations' = S.expirations
  /\ timers' = S.timers

Namespaces == {<<"a">>}

Identifiers == {<<"u">>, <<"v">>}

Windows == 2..MaxWindow

Limiters ==
  {Limiter(alg, tokens, window, 1) :
     alg \in {"fixedWindow", "slidingWindow"}, tokens \in 1..MaxTokens,
     window \in Windows}
  \cup {Limiter("tokenBucket", tokens, window, rate) :
          tokens \in 1..MaxTokens, window \in Windows, rate \in 1..MaxRate}

Procs == 1..MaxProcs

\* A process that is not inside a limit() call.
Idle == [pc |-> "idle"]

Init ==
  /\ now = 0
  /\ store = EmptyMap
  /\ expirations = EmptyMap
  /\ timers = EmptyBag
  /\ limiter \in Limiters
  /\ hist = <<>>
  /\ pending = [p \in Procs |-> Idle]

\* One ratelimiter.limit(identifier) call, awaited to its end, in a run of
\* at most bound calls.
CallUpTo(bound, namespace, identifier) ==
  /\ Len(hist) < bound
  /\ \E out \in {Limit(KV, namespace, limiter, identifier, now)} :
        /\ SetKV(out.kv)
        /\ hist' = Append(hist, [namespace |-> namespace,
                                 identifier |-> identifier, now |-> now,
                                 err |-> out.err, resp |-> out.resp,
                                 obs |-> out.obs])
  /\ UNCHANGED <<now, limiter, pending>>

Call(namespace, identifier) == CallUpTo(MaxCalls, namespace, identifier)

\* One millisecond passes; the timeouts that are due run.
Tick ==
  /\ now < MaxTime
  /\ now' = now + 1
  /\ SetKV(FireTimers(KV, now + 1))
  /\ UNCHANGED <<limiter, hist, pending>>

Next ==
  \/ \E namespace \in Namespaces, identifier \in Identifiers :
       Call(namespace, identifier)
  \/ Tick

Spec == Init /\ [][Next]_vars

InitFixed == Init /\ limiter.alg = "fixedWindow"

SpecFixed == InitFixed /\ [][Next]_vars

InitSliding == Init /\ limiter.alg = "slidingWindow"

SpecSliding == InitSliding /\ [][Next]_vars

InitBucket == Init /\ limiter.alg = "tokenBucket"

SpecBucket == InitBucket /\ [][Next]_vars

(***************************************************************************)
(* Calls that stop: limit() is called up to MaxTime, and time goes on for   *)
(* the longest time to live any limiter gives a key, the timeouts running   *)
(* when they are due.                                                       *)
(***************************************************************************)
QuietTime == MaxTime + 2 * MaxWindow

LastCalls(namespace, identifier) ==
  now <= MaxTime /\ CallUpTo(MaxKeyCalls, namespace, identifier)

TimePasses ==
  /\ now < QuietTime
  /\ now' = now + 1
  /\ SetKV(FireTimers(KV, now + 1))
  /\ UNCHANGED <<limiter, hist, pending>>

NextReclaim ==
  \/ \E namespace \in Namespaces : LastCalls(namespace, <<"u">>)
  \/ TimePasses

SpecReclaim == Init /\ [][NextReclaim]_vars /\ WF_vars(TimePasses)

(***************************************************************************)
(* Names that contain the separator: three pairs, two of which differ in   *)
(* both the namespace and the identifier.                                  *)
(***************************************************************************)
KeyPairs ==
  {<<<<"a", ":", "b">>, <<"c">>>>,
   <<<<"a">>, <<"b", ":", "c">>>>,
   <<<<"a">>, <<"c">>>>}

KeyLimiters ==
  {Limiter("fixedWindow", 1, 2, 1), Limiter("slidingWindow", 1, 2, 1),
   Limiter("tokenBucket", 1, 2, TokenUnit)}

InitKeys ==
  /\ now = 0
  /\ store = EmptyMap
  /\ expirations = EmptyMap
  /\ timers = EmptyBag
  /\ limiter \in KeyLimiters
  /\ hist = <<>>
  /\ pending = [p \in Procs |-> Idle]

NextKeys ==
  \/ \E pair \in KeyPairs : CallUpTo(MaxKeyCalls, pair[1], pair[2])
  \/ Tick

SpecKeys == InitKeys /\ [][NextKeys]_vars

(***************************************************************************)
(* A long run of calls for one identifier against slidingWindow(7, "3ms"). *)
(***************************************************************************)
InitBurst ==
  /\ now = 0
  /\ store = EmptyMap
  /\ expirations = EmptyMap
  /\ timers = EmptyBag
  /\ limiter = Limiter("slidingWindow", 7, 3, 1)
  /\ hist = <<>>
  /\ pending = [p \in Procs |-> Idle]

BurstCall == CallUpTo(MaxBurst, <<"a">>, <<"u">>)

NextBurst == BurstCall \/ Tick

SpecBurst == InitBurst /\ [][NextBurst]_vars

(***************************************************************************)
(* The limiters, one await at a time.  Every await of a limiter is a point *)
(* where other calls and the clock may move, as they do when the store is  *)
(* shared by several processes, and where the store operation may fail:    *)
(*   fixedWindow    incr [pexpire] return                                  *)
(*   slidingWindow  incr [pexpire] get return                              *)
(*   tokenBucket    hmget hmset pexpire return                             *)
(* pc names the store operation a call is about to invoke; ops lists the   *)
(* operations it has invoked; stale tells that the record a tokenBucket    *)
(* call read has been written by another call since.                       *)
(***************************************************************************)
SetPending(p, rec) ==
  pending' = [pending EXCEPT ![p] = rec]

InFlight == {p \in Procs : pending[p].pc # "idle"}

StoreOps == {"incr", "pexpire", "get", "hmget", "hmset"}

\* The errors a store operation may throw.
StoreErrors == {"ETIMEDOUT", "ECONNRESET"}

NoDecision == [none |-> TRUE]

\* The key a call builds after reading the clock.
KeyOf(namespace, identifier, t) ==
  IF limiter.alg = "tokenBucket" THEN BucketKey(namespace, identifier)
  ELSE WindowKey(namespace, identifier, t \div limiter.window)

\* const now = Date.now(); const bucket = ...; const key = ...
\* in a run of at most bound calls
BeginUpTo(bound, p, namespace, identifier) ==
  /\ pending[p].pc = "idle"
  /\ Len(hist) + Cardinality(InFlight) < bound
  /\ SetPending(p, [pc |-> IF limiter.alg = "tokenBucket" THEN "hmget"
                           ELSE "incr",
                    namespace |-> namespace,
                    identifier |-> identifier, now |-> now,
                    bucket |-> now \div limiter.window,
                    key |-> KeyOf(namespace, identifier, now),
                    current |-> 0, previous |-> Num(0),
                    read |-> <<>>, decision |-> NoDecision,
                    stale |-> FALSE, ops |-> <<>>])
  /\ UNCHANGED <<now, store, expirations, timers, limiter, hist>>

Begin(p, namespace, identifier) ==
  BeginUpTo(MaxOverlapped, p, namespace, identifier)

\* The operation a call is about to invoke has been invoked, and the call
\* goes on to next.
Invoked(rec, next) ==
  [rec EXCEPT !.ops = Append(@, rec.pc), !.pc = next]

\* What follows incr and the pexpire it may need.
AfterCount == IF limiter.alg = "slidingWindow" THEN "get" ELSE "return"

\* const current = await ctx.kv.incr(key)
DoIncr(p) ==
  /\ pending[p].pc = "incr"
  /\ \E out \in {Incr(KV, pending[p].key)} :
        /\ ~out.err
        /\ SetKV(out.kv)
        /\ SetPending(p, [Invoked(pending[p],
                                  IF out.ret = 1 THEN "pexpire"
                                  ELSE AfterCount)
                            EXCEPT !.current = out.ret])
  /\ UNCHANGED <<now, limiter, hist>>

\* await ctx.kv.pexpire(key, windowDuration), or refillDuration * 2
DoPexpire(p) ==
  /\ pending[p].pc = "pexpire"
  /\ SetKV(Pexpire(KV, pending[p].key,
                   IF limiter.alg = "tokenBucket" THEN limiter.window * 2
                   ELSE limiter.window,
                   now).kv)
  /\ SetPending(p, Invoked(pending[p],
                           IF limiter.alg = "tokenBucket" THEN "return"
                           ELSE AfterCount))
  /\ UNCHANGED <<now, limiter, hist>>

\* const previousCount = await ctx.kv.get(previousBucket).then(parseInt)
DoGet(p) ==
  /\ pending[p].pc = "get"
  /\ SetPending(p, [Invoked(pending[p], "return") EXCEPT
                      !.previous =
                         ParsePrevious(Get(KV, WindowKey(pending[p].namespace,
                                                         pending[p].identifier,
                                                         pending[p].bucket - 1)))])
  /\ UNCHANGED <<now, store, expirations, timers, limiter, hist>>

\* const current = await ctx.kv.hmget(key, "tokens", "lastRefill"), and the
\* decision the call computes from it before its next await
DoHmget(p) ==
  /\ pending[p].pc = "hmget"
  /\ \E read \in {Hmget(KV, pending[p].key, <<"tokens", "lastRefill">>).ret} :
        SetPending(p, [Invoked(pending[p], "hmset") EXCEPT
                         !.read = read,
                         !.decision = BucketDecision(read[1], read[2],
                                                     limiter.rate,
                                                     limiter.window,
                                                     limiter.tokens,
                                                     pending[p].now)])
  /\ UNCHANGED <<now, store, expirations, timers, limiter, hist>>

\* await ctx.kv.hmset(key, {tokens, lastRefill}); the calls that have read
\* the record and not yet written it now hold a stale copy
DoHmset(p) ==
  /\ pending[p].pc = "hmset"
  /\ SetKV(Hmset(KV, pending[p].key,
                 [tokens |-> pending[p].decision.tokensStr,
                  lastRefill |-> pending[p].decision.refillStr]).kv)
  /\ pending' =
       [q \in Procs |->
          IF q = p THEN Invoked(pending[p], "pexpire")
          ELSE IF pending[q].pc = "hmset" /\ pending[q].key = pending[p].key
                 THEN [pending[q] EXCEPT !.stale = TRUE]
          ELSE pending[q]]
  /\ UNCHANGED <<now, limiter, hist>>

\* The response a call computes from what the store answered.
ResponseOf(rec) ==
  CASE limiter.alg = "fixedWindow" ->
         FixedResponse(limiter.tokens, rec.current, rec.bucket, limiter.window)
    [] limiter.alg = "slidingWindow" ->
         SlidingResponse(limiter.tokens, rec.current, rec.previous, rec.now,
                         limiter.window)
    [] limiter.alg = "tokenBucket" ->
         BucketResponse(rec.decision, limiter.window, limiter.tokens)

\* return { success, limit, remaining, reset }
Return(p) ==
  /\ pending[p].pc = "return"
  /\ hist' = Append(hist,
                    [namespace |-> pending[p].namespace,
                     identifier |-> pending[p].identifier,
                     now |-> pending[p].now, err |-> FALSE,
                     resp |-> ResponseOf(pending[p]),
                     obs |-> [key |-> pending[p].key,
                              bucket |-> pending[p].bucket,
                              current |-> pending[p].current,
                              previous |-> pending[p].previous,
                              read |-> pending[p].read,
                              decision |-> pending[p].decision,
                              stale |-> pending[p].stale,
                              ops |-> pending[p].ops,
                              failed |-> "none"]])
  /\ SetPending(p, Idle)
  /\ UNCHANGED <<now, store, expirations, timers, limiter>>

RejectedMutFallback(rec, error) ==
  [namespace |-> rec.namespace, identifier |-> rec.identifier,
   now |-> rec.now, err |-> FALSE,
   resp |-> Response(TRUE, limiter.tokens, 0, rec.now, 1, FALSE),
   obs |-> [ops |-> Append(rec.ops, rec.pc), failed |-> rec.pc,
            thrown |-> error]]

\* What a call leaves when the operation it awaits throws: no limiter has a
\* try or a catch, so the promise of limit() rejects with what was thrown.
Rejected(rec, error) ==
  [namespace |-> rec.namespace, identifier |-> rec.identifier,
   now |-> rec.now, err |-> TRUE, error |-> error, resp |-> NoResponse,
   obs |-> [ops |-> Append(rec.ops, rec.pc), failed |-> rec.pc,
            thrown |-> error]]

\* The store operation a call invokes throws, leaving the store as it was.
Fail(p, error) ==
  /\ pending[p].pc \in StoreOps
  /\ hist' = Append(hist, Rejected(pending[p], error))
  /\ SetPending(p, Idle)
  /\ UNCHANGED <<now, store, expirations, timers, limiter>>

InitConc == InitFixed /\ limiter.window = 2

NextConc ==
  \/ \E p \in Procs, namespace \in Namespaces, identifier \in Identifiers :
       Begin(p, namespace, identifier)
  \/ \E p \in Procs : DoIncr(p)
  \/ \E p \in Procs : DoPexpire(p)
  \/ \E p \in Procs : Return(p)
  \/ Tick

SpecConc == InitConc /\ [][NextConc]_vars

\* Two overlapping callers of one token bucket.
Racers == {1, 2}

InitBucketConc == InitBucket /\ limiter.window = 2 /\ limiter.rate = TokenUnit

NextBucketConc ==
  \/ \E p \in Racers : BeginUpTo(MaxRaced, p, <<"a">>, <<"u">>)
  \/ \E p \in Racers : DoHmget(p)
  \/ \E p \in Racers : DoHmset(p)
  \/ \E p \in Racers : DoPexpire(p)
  \/ \E p \in Racers : Return(p)
  \/ Tick

SpecBucketConc == InitBucketConc /\ [][NextBucketConc]_vars

\* A store whose operations may throw, under each of the three limiters,
\* the calls made one at a time.
OneAtATime == {1}

InitFail ==
  /\ Init
  /\ limiter.tokens = 1 /\ limiter.window = 2
  /\ limiter.alg = "tokenBucket" => limiter.rate = TokenUnit

NextFail ==
  \/ \E p \in OneAtATime, identifier \in Identifiers :
       BeginUpTo(MaxFailCalls, p, <<"a">>, identifier)
  \/ \E p \in OneAtATime : DoIncr(p)
  \/ \E p \in OneAtATime : DoPexpire(p)
  \/ \E p \in OneAtATime : DoGet(p)
  \/ \E p \in OneAtATime : DoHmget(p)
  \/ \E p \in OneAtATime : DoHmset(p)
  \/ \E p \in OneAtATime : Return(p)
  \/ \E p \in OneAtATime, error \in StoreErrors : Fail(p, error)
  \/ Tick

SpecFail == InitFail /\ [][NextFail]_vars

(***************************************************************************)
(* A LocalKV used directly: the operations are awaited one after another   *)
(* (each is an async method without an await inside, so it runs to its end *)
(* once called), and hist logs them with the time of the call and what     *)
(* they returned.                                                          *)
(***************************************************************************)
KvKeys == {<<"k">>, <<"m">>}

KvValues == {<<"1">>, <<"x">>}

\* px of set (0 stands for no options) and milliseconds of pexpire.
KvPx == {0, 2}

KvMilliseconds == {1}

KvKeyLists == {<<k>> : k \in KvKeys} \cup {<<<<"k">>, <<"m">>>>}

Logged(entry, out) ==
  /\ Len(hist) < MaxKvOps
  /\ SetKV(out.kv)
  /\ hist' = Append(hist, [entry EXCEPT !.now = now, !.ret = out.ret,
                                        !.err = out.err])
  /\ UNCHANGED <<now, limiter, pending>>

KvEntry(op, keys, value, px) ==
  [op |-> op, keys |-> keys, value |-> value, px |-> px, now |-> 0,
   ret |-> 0, err |-> FALSE]

KvSet(key, value, px) ==
  Logged(KvEntry("set", <<key>>, value, px),
         Set(KV, key, Text(value), px, now))

KvIncrby(key, increment) ==
  Logged(KvEntry("incrby", <<key>>, <<>>, increment),
         Incrby(KV, key, increment))

KvPexpire(key, milliseconds) ==
  Logged(KvEntry("pexpire", <<key>>, <<>>, milliseconds),
         Pexpire(KV, key, milliseconds, now))

KvDel(keys) ==
  Logged(KvEntry("del", keys, <<>>, 0),
         Del(KV, keys))

KvClear ==
  Logged(KvEntry("clear", <<>>, <<>>, 0), Result(Clear(KV), 0, FALSE))

KvTick == now < MaxKvTime /\ Tick

InitKV == Init /\ limiter = Limiter("fixedWindow", 1, 2, 1)

NextKV ==
  \/ \E key \in KvKeys, value \in KvValues, px \in KvPx : KvSet(key, value, px)
  \/ \E key \in KvKeys : KvIncrby(key, 1)
  \/ \E key \in KvKeys, milliseconds \in KvMilliseconds :
       KvPexpire(key, milliseconds)
  \/ \E keys \in KvKeyLists : KvDel(keys)
  \/ KvClear
  \/ KvTick

SpecKV == InitKV /\ [][NextKV]_vars

\* Counters: values that are integers, that are not numbers, and that only
\* start like an integer; incrby's increments.
CounterValues == {<<"7">>, <<"x">>, <<"1", "x">>, <<"1", ".", "5">>}

Increments == {1, 2}

KvIncr(key) == Logged(KvEntry("incr", <<key>>, <<>>, 1), Incr(KV, key))

NextCounters ==
  \/ \E key \in KvKeys, value \in CounterValues : KvSet(key, value, 0)
  \/ \E key \in KvKeys, increment \in Increments : KvIncrby(key, increment)
  \/ \E key \in KvKeys : KvIncr(key)
  \/ \E key \in KvKeys, milliseconds \in KvMilliseconds :
       KvPexpire(key, milliseconds)
  \/ KvTick

SpecCounters == InitKV /\ [][NextCounters]_vars

\* Hashes: the fields asked for (c is never written), the updates written.
HashRequests ==
  {<<"a">>, <<"a", "b">>, <<"b", "a">>, <<"a", "c", "b">>, <<"constructor">>}

HashTexts == {<<"1">>, <<"2">>}

HashUpdates ==
  UNION {[names -> HashTexts] : names \in {{"a"}, {"b"}, {"a", "b"}}}

KvHmget(key, fields) ==
  Logged(KvEntry("hmget", <<key>>, fields, 0), Hmget(KV, key, fields))

KvHmset(key, fields) ==
  Logged(KvEntry("hmset", <<key>>, fields, 0), Hmset(KV, key, fields))

NextHashes ==
  \/ \E key \in KvKeys, fields \in HashRequests : KvHmget(key, fields)
  \/ \E key \in KvKeys, fields \in HashUpdates : KvHmset(key, fields)
  \/ \E key \in KvKeys, value \in KvValues : KvSet(key, value, 0)
  \/ \E key \in KvKeys : KvDel(<<key>>)

SpecHashes == InitKV /\ [][NextHashes]_vars

(***************************************************************************)
(* The duration parser and the construction of a limiter from a duration.  *)
(* A duration case is an input with what the contract of the parser says   *)
(* about it: whether it is a magnitude followed by a recognised unit       *)
(* spelling, and then magnitude x unit factor.                             *)
(***************************************************************************)
\* Magnitudes, each the decimal number digits / 10^decimals.
Magnitudes ==
  {[text |-> <<"1">>, digits |-> 1, decimals |-> 0],
   [text |-> <<"2">>, digits |-> 2, decimals |-> 0],
   [text |-> <<"2", "4">>, digits |-> 24, decimals |-> 0],
   [text |-> <<"1", ".", "5">>, digits |-> 15, decimals |-> 1],
   [text |-> <<".", "5">>, digits |-> 5, decimals |-> 1],
   [text |-> <<"0", ".", "2", "5">>, digits |-> 25, decimals |-> 2],
   [text |-> <<"2", ".", "0", "1">>, digits |-> 201, decimals |-> 2]}

\* Unit spellings with the factor of their unit; factor 0 for a spelling
\* the contract does not list, and for no unit at all.
Spellings ==
  {[text |-> <<"m", "i", "l", "l", "i", "s", "e", "c", "o", "n", "d">>, factor |-> 1],
   [text |-> <<"m", "i", "l", "l", "i", "s", "e", "c", "o", "n", "d", "s">>, factor |-> 1],
   [text |-> <<"m", "s">>, factor |-> 1],
   [text |-> <<"s", "e", "c", "o", "n", "d">>, factor |-> 1000],
   [text |-> <<"s", "e", "c", "o", "n", "d", "s">>, factor |-> 1000],
   [text |-> <<"s", "e", "c">>, factor |-> 1000],
   [text |-> <<"s", "e", "c", "s">>, factor |-> 1000],
   [text |-> <<"s">>, factor |-> 1000],
   [text |-> <<"m", "i", "n", "u", "t", "e">>, factor |-> 60000],
   [text |-> <<"m", "i", "n", "u", "t", "e", "s">>, factor |-> 60000],
   [text |-> <<"m", "i", "n">>, factor |-> 60000],
   [text |-> <<"m", "i", "n", "s">>, factor |-> 60000],
   [text |-> <<"m">>, factor |-> 60000],
   [text |-> <<"h", "o", "u", "r">>, factor |-> 3600000],
   [text |-> <<"h", "o", "u", "r", "s">>, factor |-> 3600000],
   [text |-> <<"h", "r">>, factor |-> 3600000],
   [text |-> <<"h", "r", "s">>, factor |-> 3600000],
   [text |-> <<"h">>, factor |-> 3600000],
   [text |-> <<"d", "a", "y">>, factor |-> 86400000],
   [text |-> <<"d", "a", "y", "s">>, factor |-> 86400000],
   [text |-> <<"d">>, factor |-> 86400000],
   [text |-> <<"m", "s", "e", "c">>, factor |-> 0],
   [text |-> <<"m", "s", "e", "c", "s">>, factor |-> 0],
   [text |-> <<"w">>, factor |-> 0],
   [text |-> <<"w", "e", "e", "k", "s">>, factor |-> 0],
   [text |-> <<>>, factor |-> 0]}

Signs == {<<>>, <<"-">>}

Gaps == {<<>>, <<" ">>, <<"\t", " ">>}

Casings == {"lower", "upper", "title"}

UpperOf(c) ==
  IF \E i \in 1..Len(LowerLetters) : LowerLetters[i] = c
    THEN UpperLetters[CHOOSE i \in 1..Len(LowerLetters) : LowerLetters[i] = c]
    ELSE c

Cased(text, casing) ==
  [i \in 1..Len(text) |->
     IF casing = "upper" \/ (casing = "title" /\ i = 1)
       THEN UpperOf(text[i]) ELSE text[i]]

RECURSIVE WideRem(_, _, _)
WideRem(a, w, i) ==
  IF i = 0 THEN 0 ELSE (WideRem(a, w, i - 1) * LimbBase + a[i]) % w

\* a / w cut after the last limb, for a natural w up to 10000.
WideDivide(a, w) ==
  [i \in WideLimbs |-> (WideRem(a, w, i - 1) * LimbBase + a[i]) \div w]

\* The double nearest to magnitude x factor: the exact product digits *
\* factor / 10^decimals, rounded once.
Product(neg, magnitude, factor) ==
  LET exact == WideTimes(factor, Widen(FxInt(magnitude.digits)))
      scale == PowerOfTen(magnitude.decimals)
  IN WideRound(neg, WideDivide(exact, scale),
               WideRem(exact, scale, NumLimbs + 1) # 0)

DurationCase(sign, magnitude, gap, spelling, casing, padded) ==
  [input |-> Text((IF padded THEN <<" ">> ELSE <<>>) \o sign \o magnitude.text
                    \o gap \o Cased(spelling.text, casing)
                    \o (IF padded THEN <<"\n">> ELSE <<>>)),
   recognised |-> spelling.factor # 0,
   expected |-> IF spelling.factor = 0 THEN 0
                ELSE Product(sign # <<>>, magnitude, spelling.factor),
   magnitude |-> magnitude.text, unit |-> spelling.text, casing |-> casing,
   gap |-> gap]

Composed ==
  {DurationCase(sign, magnitude, gap, spelling, casing, padded) :
     sign \in Signs, magnitude \in Magnitudes, gap \in Gaps,
     spelling \in Spellings, casing \in Casings, padded \in BOOLEAN}

Malformed ==
  {[input |-> input, recognised |-> FALSE, expected |-> 0,
    magnitude |-> <<>>, unit |-> <<>>, casing |-> "lower", gap |-> <<>>] :
     input \in
       {Text(<<>>),
        Text(<<" ">>),
        Text(<<"a", "b", "c">>),
        Text(<<"s">>),
        Text(<<"1", ".">>),
        Text(<<"1", ".", "5", ".", "2", "s">>),
        Text(<<"1", " ", "s", " ", "x">>),
        Text(<<"-", "-", "1", "s">>),
        Text(<<"+", "1", "s">>),
        Text(<<"1", "e", "3", "s">>),
        Text(<<"1", ",", "5", "s">>),
        NotAString("number"), NotAString("undefined"), NotAString("null")}}

DurationCases == Composed \cup Malformed

Algorithms == {"fixedWindow", "slidingWindow", "tokenBucket"}

\* A limiter about to be made by Ratelimit.fixedWindow(1, duration) (or
\* slidingWindow, or tokenBucket(1, duration, 1)).
InitMs ==
  /\ now = 0
  /\ store = EmptyMap
  /\ expirations = EmptyMap
  /\ timers = EmptyBag
  /\ limiter \in {[alg |-> "unbuilt", make |-> alg, duration |-> case] :
                    alg \in Algorithms, case \in DurationCases}
  /\ hist = <<>>
  /\ pending = [p \in Procs |-> Idle]

\* ms(duration), called by itself.
MsCall ==
  /\ hist = <<>>
  /\ hist' = <<[op |-> "ms", duration |-> limiter.duration,
                out |-> Ms(limiter.duration.input)]>>
  /\ UNCHANGED <<now, store, expirations, timers, limiter, pending>>

\* const windowDuration = ms(window); return async function ...
Construct ==
  /\ limiter.alg = "unbuilt"
  /\ \E out \in {Ms(limiter.duration.input)} :
       limiter' = IF out.thrown
                    THEN [limiter EXCEPT !.alg = "thrown"]
                    ELSE [alg |-> limiter.make, tokens |-> 1, window |-> out,
                          rate |-> TokenUnit, make |-> limiter.make,
                          duration |-> limiter.duration]
  /\ UNCHANGED <<now, store, expirations, timers, hist, pending>>

NextMs == MsCall \/ Construct

SpecMs == InitMs /\ [][NextMs]_vars

(***************************************************************************)
(* Properties.  They read the calls made so far from hist.                 *)
(***************************************************************************)
Calls == 1..Len(hist)

SamePair(d, e) == d.namespace = e.namespace /\ d.identifier = e.identifier

\* The window index of the clock value a call read.
WindowOf(e) == e.now \div limiter.window

\* The calls for the pair of call j made before it.
Earlier(j) == {i \in 1..(j - 1) : SamePair(hist[i], hist[j])}

\* The calls for the pair of call j up to j that read a clock value in the
\* same window.
InWindowUpTo(j) ==
  {i \in 1..j : SamePair(hist[i], hist[j]) /\ WindowOf(hist[i]) = WindowOf(hist[j])}

\* C1: with fixedWindow(N, W), the k-th call for a pair within one window
\* returns success = (k <= N), remaining = max(0, N - k) and limit = N.
C1_FixedKthCall ==
  \A j \in Calls :
    LET k == Cardinality(InWindowUpTo(j))
        r == hist[j].resp
    IN /\ r.success = (k <= limiter.tokens)
       /\ r.remaining = Max(0, limiter.tokens - k)
       /\ r.unit = 1
       /\ r.limit = limiter.tokens

\* The N-th call of a window succeeded with nothing remaining and the
\* (N+1)-th was denied.
C1_Witness ==
  \E i \in Calls, j \in Calls :
    /\ i \in InWindowUpTo(j)
    /\ Cardinality(InWindowUpTo(i)) = limiter.tokens
    /\ Cardinality(InWindowUpTo(j)) = limiter.tokens + 1
    /\ hist[i].resp.success /\ hist[i].resp.remaining = 0
    /\ ~hist[j].resp.success /\ hist[j].resp.remaining = 0

\* C3: every fixedWindow response has
\* reset = (floor(now / windowMs) + 1) * windowMs, now being the clock value
\* the call read, whether the call succeeded or not.
C3_FixedReset ==
  \A j \in Calls :
    hist[j].resp.reset = ((hist[j].now \div limiter.window) + 1) * limiter.window

\* An admitted and a denied call, both made inside a window.
C3_Witness ==
  \E i \in Calls, j \in Calls :
    /\ hist[i].resp.success /\ hist[i].now % limiter.window # 0
    /\ ~hist[j].resp.success /\ hist[j].now % limiter.window # 0
    /\ hist[j].now > limiter.window

\* Call j comes exactly one window after the last earlier call for its
\* pair, whose window saw more than N calls.
AfterExhaustedWindow(j) ==
  /\ Earlier(j) # {}
  /\ \A i \in Earlier(j) : hist[i].now <= hist[j].now - limiter.window
  /\ \E i \in Earlier(j) :
       /\ hist[i].now = hist[j].now - limiter.window
       /\ Cardinality(InWindowUpTo(i)) > limiter.tokens

\* C4: with fixedWindow(N, W), a call made exactly W after the last call of
\* an exhausted window succeeds with remaining = N - 1.
C4_FixedNextWindow ==
  \A j \in Calls :
    AfterExhaustedWindow(j) =>
      hist[j].resp.success /\ hist[j].resp.remaining = limiter.tokens - 1

C4_Witness ==
  \E j \in Calls :
    /\ AfterExhaustedWindow(j)
    /\ hist[j].now % limiter.window # 0
    /\ hist[j].resp.success

\* Call j and every call for its pair in its window were made at the same
\* instant, and none was made in the window before.
BurstAfterQuietWindow(j) ==
  /\ \A i \in InWindowUpTo(j) : hist[i].now = hist[j].now
  /\ \A i \in Earlier(j) : WindowOf(hist[i]) # WindowOf(hist[j]) - 1

\* C7: with slidingWindow(N, W) and no call in the previous window, of the
\* calls for a pair made at one instant the first N succeed and the next is
\* denied with remaining = 0.
C7_SlidingBurst ==
  \A j \in Calls :
    BurstAfterQuietWindow(j) =>
      LET k == Cardinality(InWindowUpTo(j))
      IN /\ hist[j].resp.success = (k <= limiter.tokens)
         /\ (k > limiter.tokens => hist[j].resp.remaining = 0)

C7_Witness ==
  \E j \in Calls :
    /\ BurstAfterQuietWindow(j)
    /\ Cardinality(InWindowUpTo(j)) = limiter.tokens + 1
    /\ \A i \in InWindowUpTo(j) \ {j} : hist[i].resp.success
    /\ ~hist[j].resp.success

\* Every earlier call for the pair of call j fell in one window, the last
\* of them exactly one window before call j.
OneWindowLater(j) ==
  /\ Earlier(j) # {}
  /\ \A h \in Earlier(j), i \in Earlier(j) : WindowOf(hist[h]) = WindowOf(hist[i])
  /\ \A i \in Earlier(j) : hist[i].now <= hist[j].now - limiter.window
  /\ \E i \in Earlier(j) : hist[i].now = hist[j].now - limiter.window

\* C8: with slidingWindow(N, W) on LocalKV, when all calls for a pair fell
\* in one window, a call made exactly W after the last of them succeeds.
C8_SlidingAfterOneWindow ==
  \A j \in Calls : OneWindowLater(j) => hist[j].resp.success

\* The window before was over-used, with calls at different instants.
C8_Witness ==
  \E j \in Calls :
    /\ OneWindowLater(j)
    /\ \E i \in Earlier(j) : ~hist[i].resp.success
    /\ \E i \in Earlier(j) : hist[i].now < hist[j].now - limiter.window
    /\ hist[j].resp.success

\* The time of the first call for the pair of call j.
FirstTime(j) == hist[CHOOSE i \in Earlier(j) \cup {j} : \A h \in Earlier(j) : i <= h].now

\* Call j and all calls before it for its pair were made less than one
\* refill interval after the first of them.
WithinFirstInterval(j) == hist[j].now < FirstTime(j) + limiter.window

\* At least M calls for the pair of call j were made within less than one
\* interval of the first, and call j comes exactly one interval after the
\* last of them.
OneIntervalAfterExhaustion(j) ==
  /\ Cardinality(Earlier(j)) >= limiter.tokens
  /\ \A i \in Earlier(j) : WithinFirstInterval(i)
  /\ \A i \in Earlier(j) : hist[i].now <= hist[j].now - limiter.window
  /\ \E i \in Earlier(j) : hist[i].now = hist[j].now - limiter.window

\* The first call for a pair takes one of the M tokens; a call after M
\* others, still within the first interval, is denied.
BucketFirstInterval(j) ==
  /\ Earlier(j) = {} =>
       /\ hist[j].resp.success
       /\ hist[j].resp.remaining = (limiter.tokens - 1) * TokenUnit
  /\ Cardinality(Earlier(j)) >= limiter.tokens /\ WithinFirstInterval(j) =>
       /\ ~hist[j].resp.success
       /\ hist[j].resp.remaining = 0

\* The call credits one tick: remaining = min(M, r) - 1, in halves.
BucketOneTick(j) ==
  /\ hist[j].resp.success
  /\ hist[j].resp.remaining =
       Min(limiter.tokens * TokenUnit, limiter.rate) - TokenUnit

\* C10 as stated, for every refill rate: with tokenBucket(r, I, M) the first
\* call returns success with remaining = M - 1, a call after M calls within
\* the first interval is denied with remaining = 0, and a call exactly I
\* after the exhausting calls succeeds with remaining = min(M, r) - 1.
C10_BucketAnyRate ==
  \A j \in Calls :
    /\ BucketFirstInterval(j)
    /\ OneIntervalAfterExhaustion(j) => BucketOneTick(j)

\* C10, amended: the same for refill rates r >= 1.
C10_BucketRateAtLeastOne ==
  \A j \in Calls :
    /\ BucketFirstInterval(j)
    /\ OneIntervalAfterExhaustion(j) /\ limiter.rate >= TokenUnit =>
         BucketOneTick(j)

\* A bucket of two tokens refilled by 1.5 is exhausted, denies a call, and
\* admits the call one interval after the last.
C10_Witness ==
  \E j \in Calls :
    /\ OneIntervalAfterExhaustion(j)
    /\ limiter.tokens = 2 /\ limiter.rate = 3
    /\ \E i \in Earlier(j) : ~hist[i].resp.success /\ hist[i].resp.remaining = 0
    /\ \E i \in Earlier(j) : hist[i].now < hist[j].now - limiter.window
    /\ BucketOneTick(j)

\* The calls of one window for one pair that were admitted.
AdmittedIn(namespace, identifier, bucket) ==
  {j \in Calls : /\ hist[j].namespace = namespace
                 /\ hist[j].identifier = identifier
                 /\ WindowOf(hist[j]) = bucket
                 /\ hist[j].resp.success}

\* C2: however concurrent fixedWindow(N, W) calls interleave at the store
\* operations, with time passing between a call's clock read and its incr,
\* at most N calls whose computed bucket is b return success = true, for
\* every pair and every window b.
C2_AtMostNPerBucket ==
  \A namespace \in Namespaces, identifier \in Identifiers, bucket \in 0..MaxTime :
    Cardinality(AdmittedIn(namespace, identifier, bucket)) <= limiter.tokens

\* The suffix a call puts after the namespace and the identifier.
KeySuffix(e) ==
  IF limiter.alg = "tokenBucket" THEN <<"b", "u", "c", "k", "e", "t">>
  ELSE NumToStr(WindowOf(e))

KeyTriple(e) == <<e.namespace, e.identifier, KeySuffix(e)>>

\* C6: two different (namespace, identifier, bucket) triples never produce
\* the same store key, and one triple always produces the same key, also
\* for namespaces and identifiers that contain ':'.
C6_KeyInjective ==
  \A i \in Calls, j \in Calls :
    (hist[i].obs.key = hist[j].obs.key) <=> (KeyTriple(hist[i]) = KeyTriple(hist[j]))

\* The calls made for a pair, in order.
CallsOf(pair) ==
  LET OfPair(e) == e.namespace = pair[1] /\ e.identifier = pair[2]
  IN SelectSeq(hist, OfPair)

\* The responses to the calls es when they are the only calls made on a
\* store in state S, the timeouts running when they are due.
RECURSIVE Alone(_, _)
Alone(S, es) ==
  IF es = <<>> THEN <<>>
  ELSE LET e == Head(es)
           out == Limit(FireTimers(S, e.now), e.namespace, limiter,
                        e.identifier, e.now)
       IN <<out.resp>> \o Alone(out.kv, Tail(es))

\* Every call made so far is for the pair, for another identifier under its
\* namespace, or for its identifier under another namespace.
OnlyNeighbours(pair) ==
  \A j \in Calls : hist[j].namespace = pair[1] \/ hist[j].identifier = pair[2]

\* C5: the calls for a pair receive the responses they would have received
\* had the calls for the other pairs never been made, the other pairs
\* having another identifier under the same namespace or the same
\* identifier under another namespace.
C5_Frame ==
  \A pair \in KeyPairs :
    OnlyNeighbours(pair) =>
      LET es == CallsOf(pair)
      IN [i \in 1..Len(es) |-> es[i].resp] = Alone(EmptyKV, es)

\* A pair made its first call, and was admitted, in the instant in which
\* its identifier under another namespace and another identifier under its
\* namespace had used up their limits.
C5_Witness ==
  \E pair \in KeyPairs :
    /\ OnlyNeighbours(pair)
    /\ \E i, j, k \in Calls :
         /\ i < k /\ j < k
         /\ hist[i].namespace # pair[1] /\ hist[i].identifier = pair[2]
         /\ hist[j].namespace = pair[1] /\ hist[j].identifier # pair[2]
         /\ hist[k].namespace = pair[1] /\ hist[k].identifier = pair[2]
         /\ hist[k].now = hist[i].now /\ hist[k].now = hist[j].now
         /\ hist[i].resp.remaining = 0 /\ hist[j].resp.remaining = 0
         /\ hist[k].resp.success

\* C9: a slidingWindow(N, W) call that counted c in the current window and
\* read p for the previous one returns success exactly when
\* p * (W - now mod W) + c * W <= N * W, remaining = 0 on every denial, and
\* reset = (floor(now / W) + 1) * W in both outcomes.
C9_SlidingExact ==
  \A j \in Calls :
    LET e == hist[j]
        W == limiter.window
    IN /\ e.resp.success <=>
            (e.obs.previous.val * (W - (e.now % W)) + e.obs.current * W
               <= limiter.tokens * W)
       /\ ~e.resp.success => e.resp.remaining = 0
       /\ e.resp.reset = ((e.now \div W) + 1) * W

\* The decision call j made.
DecisionOf(j) == hist[j].obs.decision

\* C11: after any run of tokenBucket(r, I, M) calls with idle periods of any
\* length, the tokens value stored in the record is an integer in [0, M],
\* remaining is at most M, and at most M - 1 on a successful call.
C11_BucketWholeTokens ==
  \A j \in Calls :
    /\ DecisionOf(j).tokensStr = NumToStr(DecisionOf(j).tokensToSet \div TokenUnit)
    /\ DecisionOf(j).tokensToSet \in 0..(limiter.tokens * TokenUnit)
    /\ hist[j].resp.remaining <= limiter.tokens * TokenUnit
    /\ hist[j].resp.success =>
         hist[j].resp.remaining <= (limiter.tokens - 1) * TokenUnit

\* The last call for the pair of call j before it.
Previous(j) == CHOOSE i \in Earlier(j) : \A h \in Earlier(j) : h <= i

\* The token amount, in halves, that the record held when call j read it:
\* what the previous call stored, or M when there was no record.
StoredBefore(j) ==
  IF hist[j].obs.read[1] = <<>> THEN limiter.tokens * TokenUnit
  ELSE DecisionOf(Previous(j)).tokensToSet

\* C12: a tokenBucket call succeeds exactly when
\* newTokens = min(M, stored tokens + credited tokens) >= 1, then stores
\* newTokens - 1, and otherwise stores newTokens, so that a denied call never
\* reduces the stored token count.
C12_BucketConsumesOne ==
  \A j \in Calls :
    LET d == DecisionOf(j)
        newTokens == Min(limiter.tokens * TokenUnit,
                         StoredBefore(j) + d.tokensToAdd)
    IN /\ hist[j].resp.success = (newTokens >= TokenUnit)
       /\ d.tokensToSet = IF hist[j].resp.success THEN newTokens - TokenUnit
                          ELSE newTokens
       /\ ~hist[j].resp.success => d.tokensToSet >= StoredBefore(j)

\* C13: every tokenBucket response has reset = refillDate + refillIntervalMs,
\* refillDate being the lastRefill the call persisted; a denied call, all
\* calls so far having been made at one instant t, has
\* reset = t + refillIntervalMs.
C13_BucketReset ==
  \A j \in Calls :
    /\ hist[j].resp.reset =
         ParseInt(Text(DecisionOf(j).refillStr)).val + limiter.window
    /\ (\A i \in Earlier(j) : hist[i].now = hist[j].now)
         /\ ~hist[j].resp.success =>
           hist[j].resp.reset = hist[j].now + limiter.window

\* A call was denied in the instant of all calls before it, later than the
\* start of time, and a later call of the pair credited a refill.
C13_Witness ==
  \E i \in Calls, j \in Calls :
    /\ i \in Earlier(j)
    /\ \A h \in Earlier(i) : hist[h].now = hist[i].now
    /\ ~hist[i].resp.success /\ hist[i].now > 0
    /\ DecisionOf(j).tokensToAdd > 0
    /\ hist[j].resp.reset = hist[j].now + limiter.window

\* C14: every response of every algorithm has 0 <= remaining <= limit
\* (remaining counts 1/unit of a request).
C14_RemainingWithinLimit ==
  \A j \in Calls :
    /\ hist[j].resp.remaining >= 0
    /\ hist[j].resp.remaining <= hist[j].resp.limit * hist[j].resp.unit

\* A denied call, which is beyond the limit, and before it a call of the
\* pair that left something.
C14_Witness ==
  \E i \in Calls, j \in Calls :
    /\ i \in Earlier(j)
    /\ hist[i].resp.success /\ hist[i].resp.remaining > 0
    /\ ~hist[j].resp.success /\ hist[j].resp.remaining = 0

\* C15: every response of every algorithm has reset >= now, now being the
\* clock value the call read.
C15_ResetNotPast ==
  \A j \in Calls : hist[j].resp.reset >= hist[j].now

\* A call made in the last millisecond before its reset, after time passed.
C15_Witness ==
  \E j \in Calls :
    /\ Earlier(j) # {}
    /\ hist[j].now > hist[Previous(j)].now
    /\ hist[j].resp.reset = hist[j].now + 1

\* Call i was denied, and call j is the first call for the pair made at or
\* after the reset that call i reported.
FirstAtOrAfterReset(i, j) ==
  /\ i \in Earlier(j)
  /\ ~hist[i].resp.success
  /\ hist[j].now >= hist[i].resp.reset
  /\ \A h \in Earlier(j) : hist[h].now < hist[i].resp.reset

\* C17: with tokenBucket(r, I, M), r a whole number >= 1, the first call
\* made at or after the reset of a denied call succeeds, whatever the
\* number of denied calls before that reset.
C17_BucketAdmitsAtReset ==
  \A i \in Calls, j \in Calls :
    FirstAtOrAfterReset(i, j) /\ limiter.rate % TokenUnit = 0 =>
      hist[j].resp.success

\* Two calls were denied before the reset and the call exactly at the reset
\* was admitted by the refill.
C17_Witness ==
  \E i \in Calls, h \in Calls, j \in Calls :
    /\ FirstAtOrAfterReset(i, j) /\ limiter.rate % TokenUnit = 0
    /\ i < h /\ h \in Earlier(j) /\ ~hist[h].resp.success
    /\ hist[h].now > hist[i].now
    /\ hist[j].now = hist[i].resp.reset
    /\ hist[j].obs.read[1] # <<>>
    /\ hist[j].resp.success

\* Call i was denied and call j is the next call for its pair.
NextAfterDenial(i, j) ==
  /\ i \in Earlier(j)
  /\ \A h \in Earlier(j) : h <= i
  /\ ~hist[i].resp.success

\* C16 as stated: with slidingWindow on LocalKV, when a call is denied with
\* reset = R and no call for the identifier is made before R, a call made
\* at time R succeeds.
C16_SlidingAdmitsAtReset ==
  \A i \in Calls, j \in Calls :
    NextAfterDenial(i, j) /\ hist[j].now = hist[i].resp.reset =>
      hist[j].resp.success

\* C16, amended: the next call succeeds when it is made at or after R + W,
\* one whole window after the reset.
C16_SlidingAdmitsWindowAfterReset ==
  \A i \in Calls, j \in Calls :
    NextAfterDenial(i, j) /\ hist[j].now >= hist[i].resp.reset + limiter.window =>
      hist[j].resp.success /\ hist[j].resp.remaining = (limiter.tokens - 1) * 10

\* A call was denied in the middle of a window and the next call, made one
\* window after its reset, was admitted.
C16_Witness ==
  \E i \in Calls, j \in Calls :
    /\ NextAfterDenial(i, j)
    /\ hist[i].now % limiter.window # 0
    /\ hist[j].now = hist[i].resp.reset + limiter.window
    /\ hist[j].resp.success

\* C18: two tokenBucket calls for one identifier that interleave at the
\* store operations while one token is available can both be admitted.  A
\* call whose copy of the record went stale, another call for the pair
\* having written the record after it read it, decides by its copy: when
\* the copy shows one token, it is admitted.
C18_StaleCopyDecides ==
  \A j \in Calls :
    hist[j].obs.stale /\ DecisionOf(j).newTokens = TokenUnit =>
      hist[j].resp.success /\ hist[j].resp.remaining = 0

\* Two calls for one pair read the only token of a full bucket of one in the
\* same instant, and both were admitted.
C18_Witness ==
  \E i \in Calls, j \in Calls :
    /\ i \in Earlier(j)
    /\ limiter.tokens = 1
    /\ hist[i].now = hist[j].now
    /\ hist[i].obs.read = hist[j].obs.read
    /\ DecisionOf(i).newTokens = TokenUnit /\ ~hist[i].obs.stale
    /\ DecisionOf(j).newTokens = TokenUnit /\ hist[j].obs.stale
    /\ hist[i].resp.success /\ hist[j].resp.success

\* C19: when a store operation invoked during limit() throws, limit()
\* rejects with what was thrown and gives no response, the operation that
\* threw is the last the call invoked, and no operation was invoked twice
\* by the call; this for each of the three limiters.
C19_ErrorPropagates ==
  \A j \in Calls :
    LET ops == hist[j].obs.ops
    IN /\ \A h, k \in 1..Len(ops) : ops[h] = ops[k] => h = k
       /\ hist[j].obs.failed # "none" =>
            /\ hist[j].err
            /\ hist[j].error = hist[j].obs.thrown
            /\ hist[j].resp = NoResponse
            /\ ops[Len(ops)] = hist[j].obs.failed

\* For one limiter, calls were rejected with both errors, one at its first
\* operation and one after operations that went through.
C19_Witness ==
  \E i \in Calls, j \in Calls :
    /\ hist[i].obs.failed # "none" /\ hist[j].obs.failed # "none"
    /\ hist[i].error # hist[j].error
    /\ Len(hist[i].obs.ops) = 1
    /\ Len(hist[j].obs.ops) = 3

\* The operations logged so far on a LocalKV used directly.
KvOps == 1..Len(hist)

\* hist[j] names key among its arguments (clear names every key).
Touches(j, key) ==
  \/ hist[j].op = "clear"
  \/ \E h \in 1..Len(hist[j].keys) : hist[j].keys[h] = key

\* hist[i] is a set with px of a key that nothing has touched since.
UntouchedSetPx(i) ==
  /\ hist[i].op = "set" /\ hist[i].px > 0
  /\ \A j \in KvOps : j > i => ~Touches(j, hist[i].keys[1])

\* C20: a key written by set(key, v, {px: t}) at time T0 and not touched
\* again is returned by get as v at every time before T0 + t, and get
\* returns null at every time after T0 + t.
C20_SetPxLives ==
  \A i \in KvOps :
    UntouchedSetPx(i) =>
      LET e == hist[i]
      IN /\ now < e.now + e.px => Get(KV, e.keys[1]) = Text(e.value)
         /\ now > e.now + e.px => Get(KV, e.keys[1]) = Null

\* hist[j] is a del that names key.
Deletes(j, key) == hist[j].op = "del" /\ Touches(j, key)

\* hist[i] armed an expiry on key: a set with px, or a pexpire that found
\* the key.
Arms(i, key) ==
  /\ hist[i].keys = <<key>>
  /\ \/ hist[i].op = "set" /\ hist[i].px > 0
     \/ hist[i].op = "pexpire" /\ hist[i].ret = 1

DeadlineOf(i) == hist[i].now + hist[i].px

\* hist[i] is the most recent arming of key, and key was never deleted nor
\* the store cleared since.
LastArming(i, key) ==
  /\ Arms(i, key)
  /\ \A j \in KvOps : ~Deletes(j, key)
  /\ \A j \in KvOps : j > i => ~Arms(j, key) /\ hist[j].op # "clear"

\* The timeouts pending for key number at most one.
AtMostOnePending(key) ==
  \A x, y \in BagToSet(timers) :
    x.key = key /\ y.key = key => x = y /\ timers[x] = 1

\* C21: after set / pexpire operations on a key (no del of it), at most one
\* expiry is pending for the key, the key stays until the deadline of the
\* most recently armed expiry whatever the earlier deadlines were, and it
\* is gone from that deadline on unless written again afterwards.
C21_ExpiryReplaces ==
  \A key \in KvKeys :
    /\ (\A j \in KvOps : ~Deletes(j, key)) => AtMostOnePending(key)
    /\ \A i \in KvOps :
         LastArming(i, key) =>
           /\ now < DeadlineOf(i) => Has(store, key)
           /\ (/\ now >= DeadlineOf(i)
               /\ \A j \in KvOps :
                    j > i /\ Touches(j, key) => hist[j].now < DeadlineOf(i))
                => ~Has(store, key)

\* A key armed twice, observed between the first deadline and the second.
C21_Witness ==
  \E key \in KvKeys, h \in KvOps, i \in KvOps :
    /\ h < i /\ Arms(h, key) /\ LastArming(i, key)
    /\ DeadlineOf(h) <= now /\ now < DeadlineOf(i)
    /\ Has(store, key)

\* The step is an operation op of the LocalKV, logged as the last of hist'.
KvStep(op) ==
  /\ Len(hist') = Len(hist) + 1
  /\ hist'[Len(hist')].op = op

\* hist[i] names key and no later operation does.
LastTouch(i, key) ==
  /\ Touches(i, key)
  /\ \A j \in KvOps : j > i => ~Touches(j, key)

PexpireStep ==
  KvStep("pexpire") =>
    LET e == hist'[Len(hist')]
        key == e.keys[1]
        timeout == [key |-> key, deadline |-> now + e.px]
    IN IF ~Has(store, key)
         THEN e.ret = 0 /\ UNCHANGED <<store, expirations, timers>>
         ELSE /\ e.ret = 1
              /\ store' = store
              /\ expirations' = MapPut(expirations, key, timeout)
              /\ BagIn(timeout, timers')

PexpireGone ==
  \A i \in KvOps :
    /\ hist[i].op = "pexpire" /\ hist[i].ret = 1
    /\ LastTouch(i, hist[i].keys[1])
    /\ now >= DeadlineOf(i)
    => ~Has(store, hist[i].keys[1])

\* C22: pexpire(key, ms) on an absent key returns 0 and changes neither
\* the values nor the pending expiries; on a present key it returns 1,
\* leaves the values alone and arms an expiry at now + ms, and the key is
\* absent from then on when nothing else touches it.
C22_Pexpire == [][PexpireStep]_vars /\ []PexpireGone

\* A pexpire that found no key, and one that found its key, whose deadline
\* has been reached.
C22_Witness ==
  \E i \in KvOps, j \in KvOps :
    /\ hist[i].op = "pexpire" /\ hist[i].ret = 0
    /\ hist[j].op = "pexpire" /\ hist[j].ret = 1
    /\ LastTouch(j, hist[j].keys[1])
    /\ now >= DeadlineOf(j)
    /\ ~Has(store, hist[j].keys[1])

IncrbyStep ==
  KvStep("incrby") \/ KvStep("incr") =>
    LET e == hist'[Len(hist')]
        key == e.keys[1]
        delta == IF e.op = "incr" THEN 1 ELSE e.px
    IN IF ~Has(store, key)
         THEN /\ ~e.err /\ e.ret = delta
              /\ store' = MapPut(store, key, Text(NumToStr(delta)))
              /\ UNCHANGED <<expirations, timers>>
       ELSE IF ~IsIntegerText(store[key].text)
         THEN e.err /\ UNCHANGED <<store, expirations, timers>>
       ELSE /\ ~e.err /\ e.ret = ParseInt(store[key]).val + delta
            /\ store' = MapPut(store, key, Text(NumToStr(e.ret)))
            /\ UNCHANGED <<expirations, timers>>

\* C23: incrby(key, delta) on a key whose value is not an integer fails
\* and leaves the value and the pending expiry alone; on an absent key it
\* returns delta; on an integer it returns the sum and stores it; incr(key)
\* does what incrby(key, 1) does.
C23_Incrby == [][IncrbyStep]_vars

\* The field of the hash at key as it was written: the empty string when
\* the key or the field is missing.
WrittenField(S, key, field) ==
  IF Has(S.store, key) /\ IsJson(S.store[key])
       /\ Has(S.store[key].json, field)
    THEN S.store[key].json[field]
    ELSE <<>>

HashFields == {"a", "b", "c", "constructor"}

HmgetStep ==
  KvStep("hmget") =>
    LET e == hist'[Len(hist')]
    IN /\ DOMAIN e.ret = 1..Len(e.value)
       /\ \A h \in 1..Len(e.value) :
            e.ret[h] = WrittenField(KV, e.keys[1], e.value[h])
       /\ UNCHANGED <<store, expirations, timers>>

HmsetStep ==
  KvStep("hmset") =>
    LET e == hist'[Len(hist')]
    IN \A field \in HashFields :
         Hmget(KV', e.keys[1], <<field>>).ret[1] =
           IF field \in DOMAIN e.value THEN e.value[field]
           ELSE Hmget(KV, e.keys[1], <<field>>).ret[1]

\* C24: hmget(key, f1..fn) returns n strings in request order, the empty
\* string for a missing key or field; after hmset(key, F), hmget returns
\* F's value for the fields of F and what it returned before for the others.
C24_Hashes == [][HmgetStep /\ HmsetStep]_vars

\* The timeouts pending for the keys of names, and how many of each.
PendingOf(bag, names) ==
  [x \in {y \in BagToSet(bag) : y.key \in names} |-> bag[x]]

DelStep ==
  KvStep("del") =>
    LET e == hist'[Len(hist')]
        named == {e.keys[h] : h \in 1..Len(e.keys)}
        others == KvKeys \ named
    IN /\ e.ret = Len(e.keys)
       /\ \A key \in named : Get(KV', key) = Null
       /\ \A key \in others :
            /\ Get(KV', key) = Get(KV, key)
            /\ Has(expirations', key) = Has(expirations, key)
            /\ Has(expirations, key) => expirations'[key] = expirations[key]
       /\ PendingOf(timers', others) = PendingOf(timers, others)

ClearStep ==
  KvStep("clear") =>
    store' = EmptyMap /\ expirations' = EmptyMap /\ timers' = EmptyBag

\* hist[j] writes key without arming an expiry: a set without px or an
\* incrby.
WritesOnly(j, key) ==
  /\ hist[j].keys = <<key>>
  /\ \/ hist[j].op = "set" /\ hist[j].px = 0
     \/ hist[j].op = "incrby" /\ ~hist[j].err

\* A key that was only written, never armed nor deleted, since the clear()
\* hist[i] is still there.
WrittenAfterClearStays ==
  \A i \in KvOps, key \in KvKeys :
    /\ hist[i].op = "clear"
    /\ \E j \in KvOps : j > i /\ WritesOnly(j, key)
    /\ \A j \in KvOps : j > i /\ Touches(j, key) => WritesOnly(j, key)
    => Has(store, key)

\* C26: clear() leaves no key and no pending expiry, whatever operations
\* came before it, so that a key written after clear() is never removed by
\* an expiry armed before it.
C26_Clear == [][ClearStep]_vars /\ []WrittenAfterClearStays

SetNoPxStep ==
  KvStep("set") /\ hist'[Len(hist')].px = 0 =>
    LET e == hist'[Len(hist')]
    IN /\ store' = MapPut(store, e.keys[1], Text(e.value))
       /\ UNCHANGED <<expirations, timers>>

\* hist[j] is a set without px of key, made before the deadline armed by
\* hist[i], the key being only written between the two and not touched
\* after hist[j].
SetUnderExpiry(i, j, key) ==
  /\ i < j /\ Arms(i, key)
  /\ hist[j].op = "set" /\ hist[j].px = 0 /\ LastTouch(j, key)
  /\ hist[j].now < DeadlineOf(i)
  /\ \A h \in KvOps : h > i /\ Touches(h, key) => WritesOnly(h, key)

SetKeepsExpiry ==
  \A i \in KvOps, j \in KvOps, key \in KvKeys :
    SetUnderExpiry(i, j, key) =>
      /\ now >= DeadlineOf(i) => Get(KV, key) = Null
      /\ (now < DeadlineOf(i) /\ \A h \in KvOps : ~Deletes(h, key))
           => Get(KV, key) = Text(hist[j].value)

\* C27: set(key, v) without px replaces the value and leaves expirations
\* and the pending timeouts as they are, so a key under a pending expiry
\* holds v until the deadline armed before and is absent from then on.
C27_SetKeepsExpiry == [][SetNoPxStep]_vars /\ []SetKeepsExpiry

\* A key armed, then set without px to another value, gone at the deadline.
C27_Witness ==
  \E i \in KvOps, j \in KvOps, key \in KvKeys :
    /\ SetUnderExpiry(i, j, key)
    /\ hist[i].op = "set" /\ hist[i].value # hist[j].value
    /\ hist[i].now < hist[j].now
    /\ now >= DeadlineOf(i)
    /\ Get(KV, key) = Null

\* C28: ms(input) returns magnitude x unit factor for every input made of
\* a decimal magnitude and a recognised unit spelling; the value does not
\* depend on which spelling of the unit is used, on letter case or on the
\* whitespace between magnitude and unit.
C28_MsValue ==
  \A i \in 1..Len(hist) :
    hist[i].duration.recognised =>
      hist[i].out = MsReturned(hist[i].duration.expected)

\* C29: ms(input) throws for every input that is empty, not a string, or
\* not a magnitude followed by a unit of the grammar, and a limiter given
\* such a duration is never made.
C29_MsThrows ==
  /\ \A i \in 1..Len(hist) :
       ~hist[i].duration.recognised => hist[i].out = MsThrown
  /\ ~limiter.duration.recognised => limiter.alg \in {"unbuilt", "thrown"}

\* The time of the first call that used the key of call j.
FirstHit(j) ==
  LET same == {i \in Calls : hist[i].obs.key = hist[j].obs.key}
  IN hist[CHOOSE i \in same : \A h \in same : i <= h].now

\* C30 as stated: the counter key of window b is absent from the store at
\* every time >= (b + 1) * windowMs.
C30_GoneAtWindowEnd ==
  \A j \in Calls :
    now >= (hist[j].obs.bucket + 1) * limiter.window
      => ~Has(store, hist[j].obs.key)

\* C30 amended: the counter key of window b is absent from the store at
\* every time >= t1 + windowMs, t1 being the time of the first call in the
\* window, and so at every time >= (b + 2) * windowMs.
C30_GoneWindowAfterFirstHit ==
  \A j \in Calls :
    /\ now >= FirstHit(j) + limiter.window => ~Has(store, hist[j].obs.key)
    /\ now < FirstHit(j) + limiter.window => Has(store, hist[j].obs.key)
    /\ FirstHit(j) + limiter.window <= (hist[j].obs.bucket + 2) * limiter.window

\* A window first hit in its middle and hit again later, whose key has
\* gone one window after the first hit.
C30_Witness ==
  \E i \in Calls, j \in Calls :
    /\ hist[i].obs.key = hist[j].obs.key
    /\ hist[i].now = FirstHit(j) /\ hist[i].now < hist[j].now
    /\ hist[i].now % limiter.window # 0
    /\ now = FirstHit(j) + limiter.window
    /\ ~Has(store, hist[j].obs.key)

\* The window indexes of the counter keys in the store that the calls for
\* the pair of call j created.
LiveWindows(j) ==
  {hist[i].obs.bucket :
     i \in {h \in Calls : SamePair(hist[h], hist[j])
                            /\ Has(store, hist[h].obs.key)}}

\* C31 as stated: with sequential fixedWindow calls the store holds at most
\* one counter key for any (namespace, identifier) at every instant.
C31_OneLiveKey ==
  \A j \in Calls : Cardinality(LiveWindows(j)) <= 1

\* C31 amended: the store holds at most two counter keys for any
\* (namespace, identifier), and two live keys are those of consecutive
\* windows, the older one first hit after the start of its window.
C31_TwoLiveKeys ==
  \A j \in Calls :
    /\ Cardinality(LiveWindows(j)) <= 2
    /\ \A b \in LiveWindows(j), c \in LiveWindows(j) :
         b < c => /\ c = b + 1
                  /\ \E i \in Calls :
                       /\ SamePair(hist[i], hist[j]) /\ hist[i].obs.bucket = b
                       /\ hist[i].now = FirstHit(i)
                       /\ hist[i].now % limiter.window # 0

\* Two counter keys of one pair in the store at once.
C31_Witness ==
  \E j \in Calls : Cardinality(LiveWindows(j)) = 2

\* C32: while the counter key of window b exists, its value is the number of
\* fixedWindow calls made for the pair with bucket b, admitted and denied,
\* and every call, denied ones included, raised it by exactly 1.
C32_CountsAttempts ==
  \A j \in Calls :
    /\ hist[j].obs.current = Cardinality(InWindowUpTo(j))
    /\ Has(store, hist[j].obs.key) =>
         store[hist[j].obs.key] =
           Text(NumToStr(Cardinality(
             {i \in Calls : /\ SamePair(hist[i], hist[j])
                            /\ hist[i].obs.bucket = hist[j].obs.bucket})))

\* A denied call, and a second one after it in the same window, while the
\* key of the window is still in the store.
C32_Witness ==
  \E i \in Calls, j \in Calls :
    /\ i < j /\ SamePair(hist[i], hist[j])
    /\ hist[i].obs.bucket = hist[j].obs.bucket
    /\ ~hist[i].resp.success /\ ~hist[j].resp.success
    /\ Has(store, hist[j].obs.key)

\* The lastRefill field of the record of call j's pair, as the store holds it.
StoredLastRefill(j) ==
  Hmget(KV, hist[j].obs.key, <<"lastRefill">>).ret[1]

\* Call j read a record.
ReadRecord(j) == hist[j].obs.read[2] # <<>>

\* No call for the pair of call j came after it.
LastOfPair(j) == \A i \in Calls : SamePair(hist[i], hist[j]) => i <= j

\* C33: a tokenBucket call that reads a record with lastRefill L at time t
\* stores lastRefill = t when at least one whole refillInterval has elapsed
\* (tokensToAdd > 0) and stores L again otherwise; the stored field is what
\* the last call stored; so the first call at or after L + refillInterval
\* credits tokens, whatever calls came before it.
C33_RefillClock ==
  \A j \in Calls :
    LET d == DecisionOf(j)
        elapsed == hist[j].now - d.lastRefill
    IN /\ ReadRecord(j) =>
            /\ hist[j].obs.read[2] = DecisionOf(Previous(j)).refillStr
            /\ d.lastRefill = DecisionOf(Previous(j)).refillDate
            /\ elapsed >= 0
            /\ elapsed < limiter.window
                 => d.tokensToAdd = 0 /\ d.refillDate = d.lastRefill
            /\ elapsed >= limiter.window
                 => d.tokensToAdd > 0 /\ d.refillDate = hist[j].now
       /\ ~ReadRecord(j) => d.refillDate = hist[j].now /\ d.tokensToAdd = 0
       /\ LastOfPair(j) /\ Has(store, hist[j].obs.key)
            => StoredLastRefill(j) = NumToStr(d.refillDate)

\* A call that credited tokens and moved lastRefill to its own time, a later
\* call within the interval that left it there, and the call after that
\* credited at lastRefill + refillInterval.
C33_Witness ==
  \E i \in Calls, j \in Calls, k \in Calls :
    /\ ReadRecord(i) /\ ReadRecord(j) /\ ReadRecord(k)
    /\ i = Previous(j) /\ j = Previous(k)
    /\ DecisionOf(i).refillDate = hist[i].now
    /\ DecisionOf(i).lastRefill < hist[i].now
    /\ hist[i].now < hist[j].now
    /\ DecisionOf(j).refillDate = hist[i].now
    /\ hist[k].now = hist[i].now + limiter.window
    /\ DecisionOf(k).tokensToAdd > 0

\* C34: when the last call for the pair stored tokens k (a whole number) and
\* lastRefill L, a tokenBucket call at any later time t' computes
\* newTokens = min(maxTokens, k + floor((t' - L) / refillInterval) * refillRate).
C34_DormantRecord ==
  \A j \in Calls :
    (Earlier(j) # {} /\ DecisionOf(Previous(j)).tokensToSet % TokenUnit = 0) =>
      LET k == DecisionOf(Previous(j)).tokensToSet
          L == DecisionOf(Previous(j)).refillDate
      IN DecisionOf(j).newTokens =
           Min(limiter.tokens * TokenUnit,
               k + ((hist[j].now - L) \div limiter.window) * limiter.rate)

\* C35: when the calls stop and time keeps passing, the store ends up, and
\* stays, without any key the fixedWindow, slidingWindow or tokenBucket
\* calls created.
C35_Reclaimed == <>[](DOMAIN store = {})

\* Calls were made, the last of them created or re-armed a record, and the
\* store is empty again in the quiet time after them.
C35_Witness ==
  /\ Len(hist) = MaxKeyCalls
  /\ now > MaxTime
  /\ now = hist[Len(hist)].now
           + (IF limiter.alg = "tokenBucket" THEN 2 ELSE 1) * limiter.window
  /\ DOMAIN store = {}

\* The responses fixedWindow(N, W) gives to the calls es, made at the same
\* times for the same pairs on a store of their own in state S.
RECURSIVE FixedRun(_, _)
FixedRun(S, es) ==
  IF es = <<>> THEN <<>>
  ELSE LET e == Head(es)
           out == FixedWindow(FireTimers(S, e.now), e.namespace, e.identifier,
                              limiter.tokens, limiter.window, e.now)
       IN <<[resp |-> out.resp, current |-> out.obs.current]>>
            \o FixedRun(out.kv, Tail(es))

\* C36: every call slidingWindow(N, W) admits read a current-window counter
\* <= N, the counter fixedWindow(N, W) reads at the same call of the same
\* sequence, which fixedWindow admits too; so slidingWindow admits at most N
\* calls of a pair per window index.
C36_SlidingWithinFixed ==
  LET fixed == FixedRun(EmptyKV, hist)
  IN /\ \A j \in Calls :
          /\ hist[j].obs.current = fixed[j].current
          /\ hist[j].resp.success =>
               hist[j].obs.current <= limiter.tokens /\ fixed[j].resp.success
     /\ \A namespace \in Namespaces, identifier \in Identifiers,
           bucket \in 0..MaxTime :
          Cardinality(AdmittedIn(namespace, identifier, bucket)) <= limiter.tokens

\* slidingWindow admitted a call, and denied a later one that fixedWindow
\* admits at the same place of the same sequence.
C36_Witness ==
  \E i \in Calls, j \in Calls :
    /\ i < j /\ SamePair(hist[i], hist[j])
    /\ hist[i].resp.success /\ ~hist[j].resp.success
    /\ FixedRun(EmptyKV, hist)[j].resp.success

\* The calls made for the pair of call j in the window before its own.
InPreviousWindow(j) ==
  {i \in Calls : /\ SamePair(hist[i], hist[j])
                 /\ hist[i].obs.bucket = hist[j].obs.bucket - 1}

\* C37: when c >= 1 calls were made for a pair in window b, every
\* slidingWindow call of the pair in window b + 1 reads previousCount = c.
C37_PreviousReadable ==
  \A j \in Calls :
    InPreviousWindow(j) # {} =>
      hist[j].obs.previous = Num(Cardinality(InPreviousWindow(j)))

\* C38: a key that was deleted by the del hist[i] and only written since
\* (set without px, incrby) is in the store, whatever expiry was pending
\* for it before the del; and no key has more than one expiry pending.
C38_DelLeavesNoExpiry ==
  \A key \in KvKeys :
    /\ \A i \in KvOps :
         /\ Deletes(i, key)
         /\ \E j \in KvOps : j > i /\ WritesOnly(j, key)
         /\ \A j \in KvOps : j > i /\ Touches(j, key) => WritesOnly(j, key)
         => Has(store, key)
    /\ AtMostOnePending(key)

\* C39: whenever no limit() call is in flight, every counter key of
\* fixedWindow or slidingWindow in the store has an expiry pending, also
\* after calls in which a store operation failed.
C39_CountersExpire ==
  (InFlight = {} /\ limiter.alg # "tokenBucket") =>
    \A key \in DOMAIN store :
      /\ Has(expirations, key)
      /\ \E x \in BagToSet(timers) : x.key = key

\* The tokens, in halves, that the calls of the set credited.
RECURSIVE Credited(_)
Credited(calls) ==
  IF calls = {} THEN 0
  ELSE LET j == CHOOSE i \in calls : TRUE
       IN DecisionOf(j).tokensToAdd + Credited(calls \ {j})

\* Up to call j the record of its pair never expired and the bucket stayed
\* below maxTokens at every call after the first.
NeverFullNorExpired(j) ==
  \A i \in Earlier(j) \cup {j} :
    Earlier(i) # {} =>
      /\ ReadRecord(i)
      /\ DecisionOf(i).tokens + DecisionOf(i).tokensToAdd
           < limiter.tokens * TokenUnit

\* C40: in such a run the tokens credited up to the call made at time t are
\* refillRate * floor((t - t0) / refillInterval), t0 the time of the first
\* call of the pair.
C40_NoTimeLost ==
  \A j \in Calls :
    NeverFullNorExpired(j) =>
      LET first == CHOOSE i \in Earlier(j) \cup {j} :
                     \A h \in Earlier(j) \cup {j} : i <= h
      IN Credited(Earlier(j) \cup {j}) =
           limiter.rate * ((hist[j].now - hist[first].now) \div limiter.window)

====
